---- MODULE Spec2Model ----
(***************************************************************************)
(* Scorecard extraction: strategy dispatcher (extract_scorecard and the    *)
(* three _extract_* strategies), domain conversion, validation engine and  *)
(* confidence assembly of src/llm/scorecard_extractor.py, with the         *)
(* confidence primitives of src/llm/confidence.py and the construction     *)
(* constraints of the domain objects in src/models.                        *)
(*                                                                         *)
(* Encoding.  Confidences are integers in units of 1/Scale (0.63 is 6300). *)
(* Python's None is the integer None for optional ints and bools (bools    *)
(* are 1 and 0) and the string NoStr for optional strings.  A dict is a    *)
(* sequence of [k, v] records in insertion order; assigning an existing    *)
(* key replaces the value in place, as a Python dict does.  A validation   *)
(* flag is a tuple <<text, numbers...>> in place of the formatted string.  *)
(***************************************************************************)
EXTENDS Integers, Sequences, FiniteSets, TLC

\* ------------------------------------------------------------------ bounds
MaxHoles == 2
MaxTees == 1

\* --------------------------------------------------------------- encoding
Scale == 10 ^ 4
None == 0 - 9999
NoStr == "None"
PyTrue == 1
PyFalse == 0

AF(v, c) == [value |-> v, confidence |-> c]

Truthy(s) == s # NoStr /\ s # ""

RECURSIVE SeqSum(_)
SeqSum(s) == IF s = << >> THEN 0 ELSE Head(s) + SeqSum(Tail(s))

RECURSIVE SeqMin(_)
SeqMin(s) ==
    IF Len(s) = 1 THEN Head(s)
    ELSE LET r == SeqMin(Tail(s)) IN IF Head(s) <= r THEN Head(s) ELSE r

PyMin(a, b) == IF b < a THEN b ELSE a

Slice(s, lo, hi) == SubSeq(s, lo, IF hi < Len(s) THEN hi ELSE Len(s))

\* ------------------------------------------------------------------ dicts
RECURSIVE DictHas(_, _)
DictHas(d, k) ==
    IF d = << >> THEN FALSE
    ELSE IF Head(d).k = k THEN TRUE ELSE DictHas(Tail(d), k)

RECURSIVE DictGet(_, _, _)
DictGet(d, k, dflt) ==
    IF d = << >> THEN dflt
    ELSE IF Head(d).k = k THEN Head(d).v ELSE DictGet(Tail(d), k, dflt)

DictSet(d, k, v) ==
    IF DictHas(d, k)
    THEN [i \in 1..Len(d) |-> IF d[i].k = k THEN [k |-> k, v |-> v] ELSE d[i]]
    ELSE Append(d, [k |-> k, v |-> v])

DictValues(d) == [i \in 1..Len(d) |-> d[i].v]

\* A validation result: (confidence, flags).
VR(c, f) == [conf |-> c, flags |-> f]

\* --------------------------------------------------- confidence primitives
\* round(x, 4) of x = n / Scale^2, ties to even; the result is in 1/Scale.
Round4(n) ==
    LET q == n \div Scale
        r == n % Scale
    IN  IF 2 * r > Scale \/ (2 * r = Scale /\ q % 2 = 1) THEN q + 1 ELSE q

\* Variant: the mean of the two confidences instead of their product.
compute_final_average(llm_conf, val_conf) == (llm_conf + val_conf) \div 2

compute_final(llm_conf, val_conf) == Round4(llm_conf * val_conf)

\* Variant: thresholds exclusive instead of inclusive.
to_level_strict(score) ==
    IF score > 8500 THEN "HIGH"
    ELSE IF score > 6000 THEN "MEDIUM"
    ELSE IF score > 3000 THEN "LOW"
    ELSE "VERY_LOW"

to_level(score) ==
    IF score >= 8500 THEN "HIGH"
    ELSE IF score >= 6000 THEN "MEDIUM"
    ELSE IF score >= 3000 THEN "LOW"
    ELSE "VERY_LOW"

\* FieldConfidence declares no source field, so the source argument is dropped.
_build_field_confidence(field_name, llm_confidence, val_conf, val_flags, source) ==
    LET final == compute_final(llm_confidence, val_conf)
    IN  [field_name |-> field_name,
         llm_confidence |-> llm_confidence,
         validation_confidence |-> val_conf,
         validation_flags |-> val_flags,
         final_confidence |-> final,
         level |-> to_level(final)]

\* Variant: strokes count as unusually high from 9 up instead of from 11 up.
_validate_strokes_putts_high_from_9(strokes_value, putts_value) ==
    LET strokes0 ==
            IF strokes_value # None
            THEN IF strokes_value < 1 \/ strokes_value > 15
                 THEN VR(0, << <<"Strokes outside valid range 1-15", strokes_value>> >>)
                 ELSE IF strokes_value > 8
                      THEN VR(7000, << <<"Strokes is unusually high", strokes_value>> >>)
                      ELSE VR(Scale, << >>)
            ELSE VR(Scale, << >>)
        putts0 ==
            IF putts_value # None
            THEN IF putts_value < 0 \/ putts_value > 10
                 THEN VR(0, << <<"Putts outside valid range 0-10", putts_value>> >>)
                 ELSE IF putts_value > 4
                      THEN VR(8000, << <<"Putts is unusually high", putts_value>> >>)
                      ELSE VR(Scale, << >>)
            ELSE VR(Scale, << >>)
        results0 == DictSet(DictSet(<< >>, "strokes", strokes0), "putts", putts0)
        msg == <<"Putts > strokes", putts_value, strokes_value>>
    IN  IF putts_value # None /\ strokes_value # None /\ putts_value > strokes_value
        THEN DictSet(DictSet(results0, "putts", VR(0, Append(putts0.flags, msg))),
                     "strokes", VR(PyMin(strokes0.conf, 3000), Append(strokes0.flags, msg)))
        ELSE results0

\* Variant: without the cross-field rule putts <= strokes.
_validate_strokes_putts_no_cross_check(strokes_value, putts_value) ==
    LET strokes0 ==
            IF strokes_value # None
            THEN IF strokes_value < 1 \/ strokes_value > 15
                 THEN VR(0, << <<"Strokes outside valid range 1-15", strokes_value>> >>)
                 ELSE IF strokes_value > 10
                      THEN VR(7000, << <<"Strokes is unusually high", strokes_value>> >>)
                      ELSE VR(Scale, << >>)
            ELSE VR(Scale, << >>)
        putts0 ==
            IF putts_value # None
            THEN IF putts_value < 0 \/ putts_value > 10
                 THEN VR(0, << <<"Putts outside valid range 0-10", putts_value>> >>)
                 ELSE IF putts_value > 4
                      THEN VR(8000, << <<"Putts is unusually high", putts_value>> >>)
                      ELSE VR(Scale, << >>)
            ELSE VR(Scale, << >>)
    IN  DictSet(DictSet(<< >>, "strokes", strokes0), "putts", putts0)

\* Variant: the cross-field rule overwrites the strokes confidence with 0.3.
_validate_strokes_putts_cross_overwrites(strokes_value, putts_value) ==
    LET strokes0 ==
            IF strokes_value # None
            THEN IF strokes_value < 1 \/ strokes_value > 15
                 THEN VR(0, << <<"Strokes outside valid range 1-15", strokes_value>> >>)
                 ELSE IF strokes_value > 10
                      THEN VR(7000, << <<"Strokes is unusually high", strokes_value>> >>)
                      ELSE VR(Scale, << >>)
            ELSE VR(Scale, << >>)
        putts0 ==
            IF putts_value # None
            THEN IF putts_value < 0 \/ putts_value > 10
                 THEN VR(0, << <<"Putts outside valid range 0-10", putts_value>> >>)
                 ELSE IF putts_value > 4
                      THEN VR(8000, << <<"Putts is unusually high", putts_value>> >>)
                      ELSE VR(Scale, << >>)
            ELSE VR(Scale, << >>)
        results0 == DictSet(DictSet(<< >>, "strokes", strokes0), "putts", putts0)
        msg == <<"Putts > strokes", putts_value, strokes_value>>
    IN  IF putts_value # None /\ strokes_value # None /\ putts_value > strokes_value
        THEN DictSet(DictSet(results0, "putts", VR(0, Append(putts0.flags, msg))),
                     "strokes", VR(3000, Append(strokes0.flags, msg)))
        ELSE results0

\* -------------------------------------------------------- validation rules
_validate_strokes_putts(strokes_value, putts_value) ==
    LET strokes0 ==
            IF strokes_value # None
            THEN IF strokes_value < 1 \/ strokes_value > 15
                 THEN VR(0, << <<"Strokes outside valid range 1-15", strokes_value>> >>)
                 ELSE IF strokes_value > 10
                      THEN VR(7000, << <<"Strokes is unusually high", strokes_value>> >>)
                      ELSE VR(Scale, << >>)
            ELSE VR(Scale, << >>)
        putts0 ==
            IF putts_value # None
            THEN IF putts_value < 0 \/ putts_value > 10
                 THEN VR(0, << <<"Putts outside valid range 0-10", putts_value>> >>)
                 ELSE IF putts_value > 4
                      THEN VR(8000, << <<"Putts is unusually high", putts_value>> >>)
                      ELSE VR(Scale, << >>)
            ELSE VR(Scale, << >>)
        results0 == DictSet(DictSet(<< >>, "strokes", strokes0), "putts", putts0)
        msg == <<"Putts > strokes", putts_value, strokes_value>>
    IN  IF putts_value # None /\ strokes_value # None /\ putts_value > strokes_value
        THEN DictSet(DictSet(results0, "putts", VR(0, Append(putts0.flags, msg))),
                     "strokes", VR(PyMin(strokes0.conf, 3000), Append(strokes0.flags, msg)))
        ELSE results0

_validate_gir(gir_value, strokes_value, putts_value, par_value) ==
    IF gir_value # None /\ strokes_value # None /\ putts_value # None /\ par_value # None
    THEN LET shots_to_green == strokes_value - putts_value
             expected_gir == IF shots_to_green <= par_value - 2 THEN PyTrue ELSE PyFalse
         IN  IF gir_value # expected_gir
             THEN VR(5000, << <<"GIR inconsistent with shots to green on par",
                                gir_value, shots_to_green, par_value>> >>)
             ELSE VR(Scale, << >>)
    ELSE VR(Scale, << >>)

hole_number_check(raw_hole, hole_index) ==
    LET expected == hole_index + 1
    IN  IF raw_hole.hole_number.value # None /\ raw_hole.hole_number.value # expected
        THEN VR(3000, << <<"Expected hole, got", expected, raw_hole.hole_number.value>> >>)
        ELSE VR(Scale, << >>)

_validate_hole_score(raw_hole, hole_index) ==
    LET r0 == _validate_strokes_putts(raw_hole.strokes.value, raw_hole.putts.value)
        par == raw_hole.par.value
        par_res == IF par # None /\ (par < 3 \/ par > 6)
                   THEN VR(0, << <<"Par outside valid range 3-6", par>> >>)
                   ELSE VR(Scale, << >>)
        hc == raw_hole.handicap.value
        hc_res == IF hc # None /\ (hc < 1 \/ hc > 18)
                  THEN VR(0, << <<"Handicap outside valid range 1-18", hc>> >>)
                  ELSE VR(Scale, << >>)
        r1 == DictSet(r0, "par", par_res)
        r2 == DictSet(r1, "handicap", hc_res)
        r3 == DictSet(r2, "hole_number", hole_number_check(raw_hole, hole_index))
        r4 == DictSet(r3, "green_in_regulation",
                      _validate_gir(raw_hole.green_in_regulation.value,
                                    raw_hole.strokes.value,
                                    raw_hole.putts.value,
                                    raw_hole.par.value))
    IN  DictSet(r4, "fairway_hit", VR(Scale, << >>))

\* Variant: the raw score returned whatever the scoring format.
_convert_score_to_strokes_passthrough(raw_score, par, to_par_scoring) == raw_score

_convert_score_to_strokes(raw_score, par, to_par_scoring) ==
    IF raw_score = None THEN None
    ELSE IF to_par_scoring /\ par # None THEN par + raw_score
    ELSE raw_score

\* known_hole is a Hole record, or NoHole when the course has no such hole.
NoHole == [number |-> None, par |-> None, handicap |-> None, absent |-> TRUE]

_validate_score_only_hole(raw_hole, hole_index, to_par_scoring, known_hole) ==
    LET s == raw_hole.score.value
        p == raw_hole.putts.value
        score0 ==
            IF s # None
            THEN IF to_par_scoring
                 THEN IF s < -4 \/ s > 10
                      THEN VR(0, << <<"Score-to-par outside plausible range -4 to +10", s>> >>)
                      ELSE VR(Scale, << >>)
                 ELSE IF s < 1 \/ s > 15
                      THEN VR(0, << <<"Strokes outside valid range 1-15", s>> >>)
                      ELSE IF s > 10
                           THEN VR(7000, << <<"Strokes is unusually high", s>> >>)
                           ELSE VR(Scale, << >>)
            ELSE VR(Scale, << >>)
        putts0 ==
            IF p # None
            THEN IF p < 0 \/ p > 10
                 THEN VR(0, << <<"Putts outside valid range 0-10", p>> >>)
                 ELSE IF p > 4
                      THEN VR(8000, << <<"Putts is unusually high", p>> >>)
                      ELSE VR(Scale, << >>)
            ELSE VR(Scale, << >>)
        results0 == DictSet(DictSet(<< >>, "score", score0), "putts", putts0)
        known_par == IF known_hole.absent THEN None ELSE known_hole.par
        total_strokes == _convert_score_to_strokes(s, known_par, to_par_scoring)
        msg == <<"Putts > converted strokes", p, total_strokes>>
        results1 ==
            IF s # None /\ p # None /\ total_strokes # None /\ p > total_strokes
            THEN DictSet(DictSet(results0, "putts", VR(0, Append(putts0.flags, msg))),
                         "score", VR(PyMin(score0.conf, 3000), Append(score0.flags, msg)))
            ELSE results0
    IN  DictSet(results1, "hole_number", hole_number_check(raw_hole, hole_index))

\* Variant: a mismatching total lowered to 0.5 instead of 0.2.
sum_check_half(total_value, values, text) ==
    LET present == SelectSeq(values, LAMBDA x : x # None)
    IN  IF total_value # None /\ present # << >> /\ SeqSum(present) # total_value
        THEN VR(5000, << <<text, total_value, SeqSum(present)>> >>)
        ELSE VR(Scale, << >>)

\* Check of one extracted total against the sum of the non-null hole values.
sum_check(total_value, values, text) ==
    LET present == SelectSeq(values, LAMBDA x : x # None)
    IN  IF total_value # None /\ present # << >> /\ SeqSum(present) # total_value
        THEN VR(2000, << <<text, total_value, SeqSum(present)>> >>)
        ELSE VR(Scale, << >>)

\* Variant: the front + back rule overwrites the confidence with 0.3.
RECURSIVE floor_keys_overwrites(_, _, _)
floor_keys_overwrites(results, keys, msg) ==
    IF keys = << >> THEN results
    ELSE LET cur == DictGet(results, Head(keys), VR(Scale, << >>))
         IN  floor_keys_overwrites(DictSet(results, Head(keys),
                                           VR(3000, Append(cur.flags, msg))),
                                   Tail(keys), msg)

RECURSIVE floor_keys(_, _, _)
floor_keys(results, keys, msg) ==
    IF keys = << >> THEN results
    ELSE LET cur == DictGet(results, Head(keys), VR(Scale, << >>))
         IN  floor_keys(DictSet(results, Head(keys),
                                VR(PyMin(cur.conf, 3000), Append(cur.flags, msg))),
                        Tail(keys), msg)

_validate_totals(totals, holes_list) ==
    LET strokes == [i \in 1..Len(holes_list) |-> holes_list[i].strokes.value]
        putts == [i \in 1..Len(holes_list) |-> holes_list[i].putts.value]
        ts == totals.total_score.value
        fn == totals.front_nine_score.value
        bn == totals.back_nine_score.value
        r1 == DictSet(<< >>, "total_score",
                      sum_check(ts, strokes, "Total score != sum of hole strokes"))
        r2 == DictSet(r1, "front_nine_score",
                      sum_check(fn, Slice(strokes, 1, 9), "Front nine != sum of holes 1-9"))
        r3 == DictSet(r2, "back_nine_score",
                      sum_check(bn, Slice(strokes, 10, 18), "Back nine != sum of holes 10-18"))
        r4 == IF fn # None /\ bn # None /\ ts # None /\ fn + bn # ts
              THEN floor_keys(r3, <<"total_score", "front_nine_score", "back_nine_score">>,
                              <<"Front + Back != Total", fn, bn, fn + bn, ts>>)
              ELSE r3
    IN  DictSet(r4, "total_putts",
                sum_check(totals.total_putts.value, putts,
                          "Total putts != sum of hole putts"))

tee_label(raw_tee, i) ==
    IF Truthy(raw_tee.color.value) THEN raw_tee.color.value ELSE "tee_" \o ToString(i)

yardage_key(label, yd_entry) ==
    label \o "_hole_" \o ToString(yd_entry.hole_number) \o "_yardage"

RECURSIVE validate_yardages(_, _, _)
validate_yardages(results, label, entries) ==
    IF entries = << >> THEN results
    ELSE LET yd == Head(entries).yardage.value
             res == IF yd # None /\ (yd < 50 \/ yd > 700)
                    THEN VR(0, << <<"Yardage outside plausible range 50-700", yd>> >>)
                    ELSE VR(Scale, << >>)
         IN  validate_yardages(DictSet(results, yardage_key(label, Head(entries)), res),
                               label, Tail(entries))

\* Tees i..Len(tees) of the loop over enumerate(raw.tees); i is 1-based here,
\* the label index is the 0-based i - 1 of the source.
RECURSIVE validate_tees(_, _, _)
validate_tees(results, tees, i) ==
    IF i > Len(tees) THEN results
    ELSE LET raw_tee == tees[i]
             label == tee_label(raw_tee, i - 1)
             sr == raw_tee.slope_rating.value
             sr_res == IF sr # None /\ (sr < 55 \/ sr > 155)
                       THEN VR(0, << <<label, "slope outside valid range 55-155", sr>> >>)
                       ELSE VR(Scale, << >>)
             cr == raw_tee.course_rating.value
             cr_res == IF cr # None /\ (cr < 55 \/ cr > 85)
                       THEN VR(0, << <<label, "course rating outside valid range 55.0-85.0", cr>> >>)
                       ELSE VR(Scale, << >>)
             r1 == DictSet(results, label \o "_slope_rating", sr_res)
             r2 == DictSet(r1, label \o "_course_rating", cr_res)
             r3 == DictSet(r2, label \o "_color", VR(Scale, << >>))
         IN  validate_tees(validate_yardages(r3, label, raw_tee.hole_yardages), tees, i + 1)

_validate_course_fields(raw) ==
    LET cp == raw.course.par.value
        pars == [i \in 1..Len(raw.holes) |-> raw.holes[i].par.value]
        hole_pars == SelectSeq(pars, LAMBDA x : x # None)
        mismatch == cp # None /\ hole_pars # << >> /\ SeqSum(hole_pars) # cp
        outside == cp # None /\ (cp < 54 \/ cp > 80)
        f1 == IF mismatch
              THEN << <<"Course par != sum of hole pars", cp, SeqSum(hole_pars)>> >>
              ELSE << >>
        f2 == IF outside THEN Append(f1, <<"Course par outside 54-80", cp>>) ELSE f1
        cp_conf == IF outside THEN 0 ELSE IF mismatch THEN 3000 ELSE Scale
        r1 == DictSet(<< >>, "par", VR(cp_conf, f2))
        r2 == validate_tees(r1, raw.tees, 1)
    IN  DictSet(DictSet(r2, "name", VR(Scale, << >>)), "location", VR(Scale, << >>))

\* ------------------------------------------------------ confidence assembly
\* fields[fname] for every (fname, llm_conf) of field_map, in its order.
RECURSIVE build_fields(_, _, _)
build_fields(fields, field_map, val_results) ==
    IF field_map = << >> THEN fields
    ELSE LET fname == Head(field_map).k
             v == DictGet(val_results, fname, VR(Scale, << >>))
         IN  build_fields(
                 DictSet(fields, fname,
                         _build_field_confidence(fname, Head(field_map).v,
                                                 v.conf, v.flags, "llm")),
                 Tail(field_map), val_results)

\* Variant: the hole's overall taken over every field, null ones included.
_build_hole_confidence_all_fields(hole_index, raw_hole, field_map, val_results) ==
    LET fields == build_fields(<< >>, field_map, val_results)
        finals == [i \in 1..Len(fields) |-> fields[i].v.final_confidence]
        hole_overall == IF finals # << >> THEN SeqMin(finals) ELSE 0
    IN  [hole_number |-> hole_index + 1,
         fields |-> fields,
         overall |-> hole_overall,
         level |-> to_level(hole_overall)]

_build_hole_confidence(hole_index, raw_hole, field_map, val_results) ==
    LET fields == build_fields(<< >>, field_map, val_results)
        non_null == SelectSeq(DictValues(fields),
                              LAMBDA fc : raw_hole[fc.field_name].value # None)
        non_null_finals == [i \in 1..Len(non_null) |-> non_null[i].final_confidence]
        hole_overall == IF non_null_finals # << >> THEN SeqMin(non_null_finals) ELSE 0
    IN  [hole_number |-> hole_index + 1,
         fields |-> fields,
         overall |-> hole_overall,
         level |-> to_level(hole_overall)]

\* "{final:.2f}": the final confidence to two decimals, in hundredths.  The
\* format rounds the binary double, so a final that ends in 50 (in 1/Scale)
\* is not a tie: the double nearest to q.5 hundredths lies above it exactly
\* for the q listed in above, and only then is the result q + 1.
Format2(final) ==
    LET q == final \div 100
        r == final % 100
        above == {0, 2, 3, 5, 6, 8, 9, 11, 13, 16, 19, 22, 25, 26, 27, 31, 32,
                  33, 37, 38, 39, 40, 44, 45, 46, 50, 51, 52, 53, 54, 55, 63,
                  64, 65, 66, 67, 68, 75, 76, 77, 78, 79, 80, 87, 88, 89, 90,
                  91, 92, 93}
    IN  IF r > 50 \/ (r = 50 /\ q \in above) THEN q + 1 ELSE q

\* Variant: only VERY_LOW fields are listed for review.
NeedsReview_very_low_only(fc) == fc.level = "VERY_LOW"

NeedsReview(fc) == fc.level \in {"LOW", "VERY_LOW"}

Detail(fc) ==
    IF fc.validation_flags # << >> THEN fc.validation_flags
    ELSE << <<"low LLM confidence">> >>

RECURSIVE review_fields(_, _, _)
review_fields(fields, context, hole_number) ==
    IF fields = << >> THEN << >>
    ELSE LET fc == Head(fields).v
             line == [context |-> context,
                      hole_number |-> hole_number,
                      field |-> Head(fields).k,
                      final |-> Format2(fc.final_confidence),
                      detail |-> IF context = "Round" THEN << >> ELSE Detail(fc)]
         IN  (IF NeedsReview(fc) THEN <<line>> ELSE << >>)
             \o review_fields(Tail(fields), context, hole_number)

RECURSIVE review_holes(_)
review_holes(hole_confidences) ==
    IF hole_confidences = << >> THEN << >>
    ELSE review_fields(Head(hole_confidences).fields, "Hole",
                       Head(hole_confidences).hole_number)
         \o review_holes(Tail(hole_confidences))

_collect_fields_needing_review(hole_confidences, course_fields, round_fields) ==
    review_holes(hole_confidences)
    \o review_fields(course_fields, "Course", None)
    \o review_fields(round_fields, "Round", None)

\* Variant: the course's overall left out of the extraction's overall.
_assemble_extraction_confidence_without_course(hole_confidences, course_confidence, round_fields) ==
    LET all_finals ==
            [i \in 1..Len(hole_confidences) |-> hole_confidences[i].overall]
            \o [i \in 1..Len(round_fields) |-> round_fields[i].v.final_confidence]
        overall == IF all_finals # << >> THEN SeqMin(all_finals) ELSE 0
        total_fields ==
            SeqSum([i \in 1..Len(hole_confidences) |-> Len(hole_confidences[i].fields)])
            + Len(course_confidence.fields)
            + Len(round_fields)
    IN  [hole_scores |-> hole_confidences,
         course |-> course_confidence,
         round_fields |-> round_fields,
         overall |-> overall,
         level |-> to_level(overall),
         total_fields_extracted |-> total_fields,
         fields_needing_review |->
             _collect_fields_needing_review(hole_confidences,
                                            course_confidence.fields, round_fields)]

_assemble_extraction_confidence(hole_confidences, course_confidence, round_fields) ==
    LET all_finals ==
            [i \in 1..Len(hole_confidences) |-> hole_confidences[i].overall]
            \o <<course_confidence.overall>>
            \o [i \in 1..Len(round_fields) |-> round_fields[i].v.final_confidence]
        overall == IF all_finals # << >> THEN SeqMin(all_finals) ELSE 0
        total_fields ==
            SeqSum([i \in 1..Len(hole_confidences) |-> Len(hole_confidences[i].fields)])
            + Len(course_confidence.fields)
            + Len(round_fields)
    IN  [hole_scores |-> hole_confidences,
         course |-> course_confidence,
         round_fields |-> round_fields,
         overall |-> overall,
         level |-> to_level(overall),
         total_fields_extracted |-> total_fields,
         fields_needing_review |->
             _collect_fields_needing_review(hole_confidences,
                                            course_confidence.fields, round_fields)]

full_field_map(raw_hole) ==
    << [k |-> "hole_number", v |-> raw_hole.hole_number.confidence],
       [k |-> "par", v |-> raw_hole.par.confidence],
       [k |-> "handicap", v |-> raw_hole.handicap.confidence],
       [k |-> "strokes", v |-> raw_hole.strokes.confidence],
       [k |-> "putts", v |-> raw_hole.putts.confidence],
       [k |-> "fairway_hit", v |-> raw_hole.fairway_hit.confidence],
       [k |-> "green_in_regulation", v |-> raw_hole.green_in_regulation.confidence] >>

RECURSIVE yardage_llm_map(_, _, _)
yardage_llm_map(m, label, entries) ==
    IF entries = << >> THEN m
    ELSE yardage_llm_map(DictSet(m, yardage_key(label, Head(entries)),
                                 Head(entries).yardage.confidence),
                         label, Tail(entries))

RECURSIVE tees_llm_map(_, _, _)
tees_llm_map(m, tees, i) ==
    IF i > Len(tees) THEN m
    ELSE LET raw_tee == tees[i]
             label == tee_label(raw_tee, i - 1)
             m1 == DictSet(m, label \o "_color", raw_tee.color.confidence)
             m2 == DictSet(m1, label \o "_slope_rating", raw_tee.slope_rating.confidence)
             m3 == DictSet(m2, label \o "_course_rating", raw_tee.course_rating.confidence)
         IN  tees_llm_map(yardage_llm_map(m3, label, raw_tee.hole_yardages), tees, i + 1)

course_llm_map(raw) ==
    tees_llm_map(<< [k |-> "name", v |-> raw.course.name.confidence],
                    [k |-> "location", v |-> raw.course.location.confidence],
                    [k |-> "par", v |-> raw.course.par.confidence] >>,
                 raw.tees, 1)

RoundField(name, llm_conf, v) ==
    [k |-> name, v |-> _build_field_confidence(name, llm_conf, v.conf, v.flags, "llm")]

_build_extraction_confidence(raw) ==
    LET hole_confidences ==
            [i \in 1..Len(raw.holes) |->
                _build_hole_confidence(i - 1, raw.holes[i], full_field_map(raw.holes[i]),
                                       _validate_hole_score(raw.holes[i], i - 1))]
        course_fields == build_fields(<< >>, course_llm_map(raw), _validate_course_fields(raw))
        course_non_null == [i \in 1..Len(course_fields) |-> course_fields[i].v.final_confidence]
        course_overall == IF course_non_null # << >> THEN SeqMin(course_non_null) ELSE 0
        course_confidence == [fields |-> course_fields,
                              overall |-> course_overall,
                              level |-> to_level(course_overall)]
        totals_val == _validate_totals(raw.totals, raw.holes)
        ok == VR(Scale, << >>)
        round_fields ==
            << RoundField("date", raw.date.confidence, ok),
               RoundField("player_name", raw.player_name.confidence, ok),
               RoundField("notes", raw.notes.confidence, ok),
               RoundField("total_score", raw.totals.total_score.confidence,
                          DictGet(totals_val, "total_score", ok)),
               RoundField("front_nine_score", raw.totals.front_nine_score.confidence,
                          DictGet(totals_val, "front_nine_score", ok)),
               RoundField("back_nine_score", raw.totals.back_nine_score.confidence,
                          DictGet(totals_val, "back_nine_score", ok)),
               RoundField("total_putts", raw.totals.total_putts.confidence,
                          DictGet(totals_val, "total_putts", ok)) >>
    IN  _assemble_extraction_confidence(hole_confidences, course_confidence, round_fields)

\* Course.get_hole(number): the hole at that position of the hole list.
get_hole(course, number) ==
    IF 1 <= number /\ number <= Len(course.holes)
    THEN course.holes[number]
    ELSE NoHole

scores_field_map(raw_hole) ==
    << [k |-> "hole_number", v |-> raw_hole.hole_number.confidence],
       [k |-> "score", v |-> raw_hole.score.confidence],
       [k |-> "putts", v |-> raw_hole.putts.confidence] >>

\* Variant: the course confidence follows the model's to_par_scoring field.
_build_scores_only_confidence_from_model(raw, course) ==
    LET to_par == (raw.to_par_scoring.value = PyTrue)
        hole_confidences ==
            [i \in 1..Len(raw.holes) |->
                _build_hole_confidence(
                    i - 1, raw.holes[i], scores_field_map(raw.holes[i]),
                    _validate_score_only_hole(raw.holes[i], i - 1, to_par,
                                              get_hole(course, i)))]
        course_confidence ==
            [fields |-> << [k |-> "source",
                            v |-> _build_field_confidence("source", Scale, Scale,
                                                          << >>, "database")] >>,
             overall |-> raw.to_par_scoring.confidence,
             level |-> to_level(raw.to_par_scoring.confidence)]
        ok == VR(Scale, << >>)
        round_fields ==
            << RoundField("date", raw.date.confidence, ok),
               RoundField("player_name", raw.player_name.confidence, ok),
               RoundField("to_par_scoring", raw.to_par_scoring.confidence, ok) >>
    IN  _assemble_extraction_confidence(hole_confidences, course_confidence, round_fields)

_build_scores_only_confidence(raw, course) ==
    LET to_par == (raw.to_par_scoring.value = PyTrue)
        hole_confidences ==
            [i \in 1..Len(raw.holes) |->
                _build_hole_confidence(
                    i - 1, raw.holes[i], scores_field_map(raw.holes[i]),
                    _validate_score_only_hole(raw.holes[i], i - 1, to_par,
                                              get_hole(course, i)))]
        course_confidence ==
            [fields |-> << [k |-> "source",
                            v |-> _build_field_confidence("source", Scale, Scale,
                                                          << >>, "database")] >>,
             overall |-> Scale,
             level |-> "HIGH"]
        ok == VR(Scale, << >>)
        round_fields ==
            << RoundField("date", raw.date.confidence, ok),
               RoundField("player_name", raw.player_name.confidence, ok),
               RoundField("to_par_scoring", raw.to_par_scoring.confidence, ok) >>
    IN  _assemble_extraction_confidence(hole_confidences, course_confidence, round_fields)

\* ------------------------------------------------- domain objects (models)
InRange(v, lo, hi) == v = None \/ (lo <= v /\ v <= hi)

Hole(number, par, handicap) ==
    [number |-> number, par |-> par, handicap |-> handicap, absent |-> FALSE]

Hole_ok(h) ==
    InRange(h.number, 1, 18) /\ InRange(h.par, 3, 6) /\ InRange(h.handicap, 1, 18)

Tee_ok(t) ==
    /\ InRange(t.slope_rating, 55, 155)
    /\ InRange(t.course_rating, 55, 85)
    /\ \A i \in 1..Len(t.hole_yardages) :
          /\ 1 <= t.hole_yardages[i].k /\ t.hole_yardages[i].k <= 18
          /\ 0 <= t.hole_yardages[i].v /\ t.hole_yardages[i].v <= 700

HoleScore_ok(hs) ==
    /\ InRange(hs.hole_number, 1, 18)
    /\ InRange(hs.strokes, 1, 15)
    /\ InRange(hs.putts, 0, 10)
    /\ ~(hs.putts # None /\ hs.strokes # None /\ hs.putts > hs.strokes)

\* Course.tees is a list of the Tee class of course.py; _build_course hands it
\* models.tee.Tee objects, which the field rejects, and a tee with a colour
\* needs a slope_rating entry of that colour, which _build_course never passes.
Course_ok(c) ==
    /\ InRange(c.par, 54, 80)
    /\ c.tees = << >>

\* Course.get_par(): the explicit par, else the sum of the hole pars when
\* every hole has one.
get_par(course) ==
    IF course.par # None THEN course.par
    ELSE IF course.holes = << >> \/ \E i \in 1..Len(course.holes) : course.holes[i].par = None
         THEN None
         ELSE SeqSum([i \in 1..Len(course.holes) |-> course.holes[i].par])

\* ------------------------------------------------------- domain conversion
ParsableDates == {"2024-06-01"}
NoDate == << >>

_parse_date(date_str) ==
    IF ~Truthy(date_str) THEN NoDate
    ELSE IF date_str \in ParsableDates THEN <<2024, 6, 1>>
    ELSE NoDate

RECURSIVE tee_yardages(_, _)
tee_yardages(yardages, entries) ==
    IF entries = << >> THEN yardages
    ELSE tee_yardages(
             IF Head(entries).yardage.value # None
             THEN DictSet(yardages, Head(entries).hole_number, Head(entries).yardage.value)
             ELSE yardages,
             Tail(entries))

_build_course(raw) ==
    [name |-> raw.course.name.value,
     location |-> raw.course.location.value,
     par |-> raw.course.par.value,
     holes |-> [i \in 1..Len(raw.holes) |->
                   Hole(raw.holes[i].hole_number.value,
                        raw.holes[i].par.value,
                        raw.holes[i].handicap.value)],
     tees |-> [i \in 1..Len(raw.tees) |->
                  [color |-> raw.tees[i].color.value,
                   slope_rating |-> raw.tees[i].slope_rating.value,
                   course_rating |-> raw.tees[i].course_rating.value,
                   hole_yardages |-> tee_yardages(<< >>, raw.tees[i].hole_yardages)]]]

_build_hole_scores(raw) ==
    [i \in 1..Len(raw.holes) |->
        [hole_number |-> raw.holes[i].hole_number.value,
         strokes |-> raw.holes[i].strokes.value,
         putts |-> raw.holes[i].putts.value,
         fairway_hit |-> raw.holes[i].fairway_hit.value,
         green_in_regulation |-> raw.holes[i].green_in_regulation.value]]

_build_round(raw) ==
    [course |-> _build_course(raw),
     tee_box |-> raw.tee_played.value,
     date |-> _parse_date(raw.date.value),
     hole_scores |-> _build_hole_scores(raw),
     total_putts |-> raw.totals.total_putts.value,
     notes |-> raw.notes.value]

\* The constructors called by _build_round accept their arguments.
build_round_ok(raw) ==
    LET c == _build_course(raw)
        hs == _build_hole_scores(raw)
    IN  /\ \A i \in 1..Len(c.holes) : Hole_ok(c.holes[i])
        /\ \A i \in 1..Len(c.tees) : Tee_ok(c.tees[i])
        /\ Course_ok(c)
        /\ \A i \in 1..Len(hs) : HoleScore_ok(hs[i])

\* HoleConfidence.hole_number is limited to 1..18.
confidence_ok(holes) == Len(holes) <= 18

scores_hole_scores(raw, course) ==
    LET to_par == (raw.to_par_scoring.value = PyTrue)
    IN  [i \in 1..Len(raw.holes) |->
            LET hole_num == raw.holes[i].hole_number.value
                known_hole == IF hole_num # None /\ hole_num # 0
                              THEN get_hole(course, hole_num) ELSE NoHole
                known_par == IF known_hole.absent THEN None ELSE known_hole.par
            IN  [hole_number |-> hole_num,
                 strokes |-> _convert_score_to_strokes(raw.holes[i].score.value,
                                                       known_par, to_par),
                 putts |-> raw.holes[i].putts.value,
                 fairway_hit |-> None,
                 green_in_regulation |-> None]]

_build_round_from_scores(raw, course) ==
    LET hole_scores == scores_hole_scores(raw, course)
        all_putts == SelectSeq([i \in 1..Len(hole_scores) |-> hole_scores[i].putts],
                               LAMBDA x : x # None)
    IN  [course |-> course,
         tee_box |-> NoStr,
         date |-> _parse_date(raw.date.value),
         hole_scores |-> hole_scores,
         total_putts |-> IF all_putts # << >> THEN SeqSum(all_putts) ELSE None,
         notes |-> NoStr]

build_round_from_scores_ok(raw, course) ==
    \A i \in 1..Len(raw.holes) : HoleScore_ok(scores_hole_scores(raw, course)[i])

\* ----------------------------------------------------------- configuration
GEMINI_MODEL == "gemini-3-pro-preview"
GEMINI_MODEL_FAST == "gemini-2.5-flash"
MIME_TYPES ==
    << [k |-> ".jpg", v |-> "image/jpeg"],
       [k |-> ".jpeg", v |-> "image/jpeg"],
       [k |-> ".png", v |-> "image/png"],
       [k |-> ".webp", v |-> "image/webp"],
       [k |-> ".heic", v |-> "image/heic"],
       [k |-> ".pdf", v |-> "application/pdf"] >>

\* str.lower() on the file suffixes the model uses.
Lower(suffix) ==
    IF suffix = ".PDF" THEN ".pdf"
    ELSE IF suffix = ".JPG" THEN ".jpg"
    ELSE suffix

\* _get_mime_type: the MIME type, or NoStr where the source raises ValueError.
_get_mime_type(suffix) == DictGet(MIME_TYPES, Lower(suffix), NoStr)

\* ------------------------------------------------------------ model inputs
NoCourse ==
    [id |-> "none", name |-> NoStr, location |-> NoStr, par |-> None,
     holes |-> << >>, tees |-> << >>]
CourseA ==
    [id |-> "A", name |-> "Pebble Beach", location |-> "CA", par |-> None,
     holes |-> <<Hole(1, 4, 1), Hole(2, 3, 2)>>, tees |-> << >>]
CourseB ==
    [id |-> "B", name |-> "Augusta", location |-> NoStr, par |-> 72,
     holes |-> <<Hole(1, None, None)>>, tees |-> << >>]
Courses == {CourseA, CourseB}

Suffixes == {".jpg", ".PDF", ".txt"}
Strategies == {"full", "scores_only", "smart", "other"}
Repos == {"null", "db"}

IdRaws ==
    { [course_name |-> AF("Pebble Beach", 9500), course_location |-> AF("CA", 9000)],
      [course_name |-> AF("", 2000), course_location |-> AF("CA", 9000)],
      [course_name |-> AF(NoStr, 0), course_location |-> AF(NoStr, 0)] }

NullAF == AF(None, 0)
NullStrAF == AF(NoStr, 0)

\* A hole list: position i carries hole_number i, None, 1, or i + 1.
NumberAt(kind, i) ==
    IF kind = "seq" THEN AF(i, Scale)
    ELSE IF kind = "null" THEN NullAF
    ELSE IF kind = "one" THEN AF(1, 9000)
    ELSE AF(i + 1, 9000)

FullHoleAt(b, i) ==
    [hole_number |-> NumberAt(b.hn, i),
     par |-> b.par, handicap |-> b.handicap,
     strokes |-> b.strokes, putts |-> b.putts,
     fairway_hit |-> b.fairway_hit,
     green_in_regulation |-> b.green_in_regulation]

ScoreHoleAt(b, i) ==
    [hole_number |-> NumberAt(b.hn, i), score |-> b.score, putts |-> b.putts]

FullHoleLists(bodies, n) ==
    UNION { { [i \in 1..k |-> FullHoleAt(f[i], i)] : f \in [1..k -> bodies] } : k \in 0..n }

ScoreHoleLists(bodies, n) ==
    UNION { { [i \in 1..k |-> ScoreHoleAt(f[i], i)] : f \in [1..k -> bodies] } : k \in 0..n }

TeeLists(samples, n) ==
    UNION { [1..k -> samples] : k \in 0..n }

Totals(ts, fn, bn, tp) ==
    [total_score |-> ts, front_nine_score |-> fn, back_nine_score |-> bn,
     total_putts |-> tp]

TeeBlue ==
    [color |-> AF("blue", Scale), slope_rating |-> AF(130, 9000),
     course_rating |-> AF(72, 9000),
     hole_yardages |-> << [hole_number |-> 1, yardage |-> AF(400, 9000)] >>]

\* Responses of the model backend to the dispatcher's calls.
DispatchFullBodies ==
    { [hn |-> "seq", par |-> AF(4, Scale), handicap |-> NullAF,
       strokes |-> st, putts |-> pu,
       fairway_hit |-> NullAF, green_in_regulation |-> NullAF] :
         st \in {AF(4, 9000), AF(16, 8000)}, pu \in {AF(2, Scale), AF(5, 6000)} }

DispatchFullRaws ==
    { [course |-> [name |-> AF("Pebble Beach", 9500), location |-> NullStrAF, par |-> cp],
       tees |-> tees,
       tee_played |-> played,
       date |-> date,
       player_name |-> NullStrAF,
       holes |-> holes,
       totals |-> Totals(NullAF, NullAF, NullAF, NullAF),
       notes |-> NullStrAF] :
         cp \in {NullAF, AF(90, Scale)},
         tees \in TeeLists({TeeBlue}, MaxTees),
         played \in {NullStrAF, AF("white", 8000)},
         date \in {AF("2024-06-01", 9000), NullStrAF},
         holes \in FullHoleLists(DispatchFullBodies, MaxHoles) }

DispatchScoreBodies ==
    { [hn |-> "seq", score |-> sc, putts |-> pu] :
         sc \in {AF(1, 9000), AF(5, Scale), NullAF}, pu \in {AF(2, Scale), NullAF} }

DispatchScoresRaws ==
    { [to_par_scoring |-> tp,
       date |-> NullStrAF,
       player_name |-> AF("Tucker", 9000),
       holes |-> holes] :
         tp \in {AF(PyTrue, 9000), AF(PyFalse, Scale)},
         holes \in ScoreHoleLists(DispatchScoreBodies, MaxHoles) }

\* A response is a schema-conforming raw object, or a parse failure.
NoRaw == [absent |-> TRUE]
ParseFailure == [ok |-> FALSE, raw |-> NoRaw]
Conforming(raws) == { [ok |-> TRUE, raw |-> r] : r \in raws }

\* ---------------------------------------------------------------- state
VARIABLES
    pc,        \* where the request is: "idle", a pending call, or "done"
    req,       \* the arguments of extract_scorecard
    known,     \* the course handed to _extract_scores_only
    idraw,     \* the RawCourseIdentification of _extract_smart
    log,       \* model calls and repository lookups made so far, in order
    outcome,   \* the ExtractionResult returned, or the exception raised
    pin,       \* input of the pure pipeline under check
    pout       \* its output

vars == <<pc, req, known, idraw, log, outcome, pin, pout>>

NoRound == [absent |-> TRUE]
NoConf == [absent |-> TRUE]
NoOutcome ==
    [kind |-> "none", error |-> "", round |-> NoRound, confidence |-> NoConf,
     raw_response |-> NoRaw]
NoReq ==
    [file_exists |-> FALSE, suffix |-> "", api_key |-> FALSE, strategy |-> "",
     course |-> NoCourse, course_repo |-> "null", include_raw_response |-> FALSE]
NoId == [course_name |-> NullStrAF, course_location |-> NullStrAF]
NoPure == [kind |-> "none"]

Raise(name) == [NoOutcome EXCEPT !.kind = "error", !.error = name]

ExtractionResult(round, confidence, raw_response) ==
    [kind |-> "result", error |-> "", round |-> round, confidence |-> confidence,
     raw_response |-> raw_response]

\* A log entry is a call with its answer: "pending" while the call blocks,
\* then "ok" or "parse_failure" for a model call and the id of the course
\* found ("none" for None) for a repository lookup.
\* _call_gemini as it is issued: the schema asked for, the model used and,
\* for the scores-only prompt, the known course written into the prompt.
ModelCall(schema, model, course) ==
    [op |-> "model", schema |-> schema, model |-> model,
     course |-> course.id, total_par |-> get_par(course),
     name |-> NoStr, location |-> NoStr, answer |-> "pending", returned |-> NoRaw]

Lookup(name, location) ==
    [op |-> "lookup", schema |-> "", model |-> "",
     course |-> "none", total_par |-> None,
     name |-> name, location |-> location, answer |-> "pending", returned |-> NoRaw]

PureIdle == pin = NoPure /\ pout = NoPure

Init ==
    /\ pc = "idle"
    /\ req = NoReq
    /\ known = NoCourse
    /\ idraw = NoId
    /\ log = << >>
    /\ outcome = NoOutcome
    /\ PureIdle

\* Entry into _extract_full: the Full call is issued.
enter_full(seen) ==
    /\ pc' = "call_full"
    /\ log' = Append(seen, ModelCall("Full", GEMINI_MODEL, NoCourse))
    /\ known' = NoCourse
    /\ outcome' = NoOutcome

\* Entry into _extract_scores_only: the Scores-Only call is issued.
\* Variant: the scores-only path looks the known course up once more.
enter_scores_only_refreshes(seen, course) ==
    /\ pc' = "call_scores_only"
    /\ log' = seen \o << [Lookup(course.name, course.location) EXCEPT !.answer = course.id],
                          ModelCall("ScoresOnly", GEMINI_MODEL, course) >>
    /\ known' = course
    /\ outcome' = NoOutcome

enter_scores_only(seen, course) ==
    /\ pc' = "call_scores_only"
    /\ log' = Append(seen, ModelCall("ScoresOnly", GEMINI_MODEL, course))
    /\ known' = course
    /\ outcome' = NoOutcome

answered(a) == [log EXCEPT ![Len(log)].answer = a]

\* The validated raw extraction a model call returned.
returned(raw) == [log EXCEPT ![Len(log)].answer = "ok", ![Len(log)].returned = raw]

\* raw.model_dump(): the declared fields of the schema, field by field.
dump_field(f) == [value |-> f.value, confidence |-> f.confidence]

model_dump_full(raw) ==
    [course |-> [name |-> dump_field(raw.course.name),
                 location |-> dump_field(raw.course.location),
                 par |-> dump_field(raw.course.par)],
     tees |-> [i \in 1..Len(raw.tees) |->
                 [color |-> dump_field(raw.tees[i].color),
                  slope_rating |-> dump_field(raw.tees[i].slope_rating),
                  course_rating |-> dump_field(raw.tees[i].course_rating),
                  hole_yardages |->
                      [j \in 1..Len(raw.tees[i].hole_yardages) |->
                          [hole_number |-> raw.tees[i].hole_yardages[j].hole_number,
                           yardage |-> dump_field(raw.tees[i].hole_yardages[j].yardage)]]]],
     tee_played |-> dump_field(raw.tee_played),
     date |-> dump_field(raw.date),
     player_name |-> dump_field(raw.player_name),
     holes |-> [i \in 1..Len(raw.holes) |->
                  [hole_number |-> dump_field(raw.holes[i].hole_number),
                   par |-> dump_field(raw.holes[i].par),
                   handicap |-> dump_field(raw.holes[i].handicap),
                   strokes |-> dump_field(raw.holes[i].strokes),
                   putts |-> dump_field(raw.holes[i].putts),
                   fairway_hit |-> dump_field(raw.holes[i].fairway_hit),
                   green_in_regulation |-> dump_field(raw.holes[i].green_in_regulation)]],
     totals |-> [total_score |-> dump_field(raw.totals.total_score),
                 front_nine_score |-> dump_field(raw.totals.front_nine_score),
                 back_nine_score |-> dump_field(raw.totals.back_nine_score),
                 total_putts |-> dump_field(raw.totals.total_putts)],
     notes |-> dump_field(raw.notes)]

model_dump_scores(raw) ==
    [to_par_scoring |-> dump_field(raw.to_par_scoring),
     date |-> dump_field(raw.date),
     player_name |-> dump_field(raw.player_name),
     holes |-> [i \in 1..Len(raw.holes) |->
                  [hole_number |-> dump_field(raw.holes[i].hole_number),
                   score |-> dump_field(raw.holes[i].score),
                   putts |-> dump_field(raw.holes[i].putts)]]]

finish(seen, o) ==
    /\ pc' = "done"
    /\ outcome' = o
    /\ log' = seen
    /\ UNCHANGED known

\* Variant: the course check of SCORES_ONLY comes after the call is issued.
dispatch_calls_first(strategy, course) ==
    IF strategy = "full" THEN enter_full(log)
    ELSE IF strategy = "scores_only"
         THEN IF course = NoCourse
              THEN finish(Append(log, ModelCall("ScoresOnly", GEMINI_MODEL, course)),
                          Raise("ValueError: SCORES_ONLY requires course"))
              ELSE enter_scores_only(log, course)
    ELSE IF strategy = "smart"
         THEN /\ pc' = "call_course_id"
              /\ log' = Append(log, ModelCall("CourseId", GEMINI_MODEL_FAST, NoCourse))
              /\ UNCHANGED <<known, outcome>>
    ELSE finish(log, Raise("ValueError: Unknown strategy"))

\* The strategy dispatch of extract_scorecard, up to the first blocking call.
dispatch(strategy, course) ==
    IF strategy = "full" THEN enter_full(log)
    ELSE IF strategy = "scores_only"
         THEN IF course = NoCourse
              THEN finish(log, Raise("ValueError: SCORES_ONLY requires course"))
              ELSE enter_scores_only(log, course)
    ELSE IF strategy = "smart"
         THEN /\ pc' = "call_course_id"
              /\ log' = Append(log, ModelCall("CourseId", GEMINI_MODEL_FAST, NoCourse))
              /\ UNCHANGED <<known, outcome>>
    ELSE finish(log, Raise("ValueError: Unknown strategy"))

\* Variant: the credentials are checked before the file type.
extract_scorecard_client_first(file_exists, suffix, api_key, strategy, course, course_repo, include_raw_response) ==
    /\ pc = "idle"
    /\ req' = [file_exists |-> file_exists, suffix |-> suffix, api_key |-> api_key,
               strategy |-> strategy, course |-> course, course_repo |-> course_repo,
               include_raw_response |-> include_raw_response]
    /\ IF ~file_exists THEN finish(log, Raise("FileNotFoundError"))
       ELSE IF ~api_key THEN finish(log, Raise("EnvironmentError"))
       ELSE IF _get_mime_type(suffix) = NoStr
            THEN finish(log, Raise("ValueError: Unsupported file type"))
       ELSE dispatch(strategy, course)
    /\ UNCHANGED <<idraw, pin, pout>>

\* extract_scorecard up to its first blocking call.
extract_scorecard(file_exists, suffix, api_key, strategy, course, course_repo, include_raw_response) ==
    /\ pc = "idle"
    /\ req' = [file_exists |-> file_exists, suffix |-> suffix, api_key |-> api_key,
               strategy |-> strategy, course |-> course, course_repo |-> course_repo,
               include_raw_response |-> include_raw_response]
    /\ IF ~file_exists THEN finish(log, Raise("FileNotFoundError"))
       ELSE IF _get_mime_type(suffix) = NoStr
            THEN finish(log, Raise("ValueError: Unsupported file type"))
       ELSE IF ~api_key THEN finish(log, Raise("EnvironmentError"))
       ELSE dispatch(strategy, course)
    /\ UNCHANGED <<idraw, pin, pout>>

\* Variant: the lookup is made whatever the identified name is.
_extract_smart_always_looks_up(resp) ==
    /\ pc = "call_course_id"
    /\ IF ~resp.ok
       THEN /\ finish(answered("parse_failure"), Raise("ValidationError: response"))
            /\ UNCHANGED idraw
       ELSE /\ idraw' = resp.raw
            /\ pc' = "lookup"
            /\ log' = Append(answered("ok"),
                             Lookup(resp.raw.course_name.value,
                                    resp.raw.course_location.value))
            /\ UNCHANGED <<known, outcome>>
    /\ UNCHANGED <<req, pin, pout>>

\* Variant: a parse failure of the identification call falls back to FULL.
_extract_smart_falls_back(resp) ==
    /\ pc = "call_course_id"
    /\ IF ~resp.ok
       THEN /\ enter_full(answered("parse_failure"))
            /\ UNCHANGED idraw
       ELSE /\ idraw' = resp.raw
            /\ IF Truthy(resp.raw.course_name.value)
               THEN /\ pc' = "lookup"
                    /\ log' = Append(answered("ok"),
                                     Lookup(resp.raw.course_name.value,
                                            resp.raw.course_location.value))
                    /\ UNCHANGED <<known, outcome>>
               ELSE enter_full(answered("ok"))
    /\ UNCHANGED <<req, pin, pout>>

\* _extract_smart after the identification call returned.
_extract_smart(resp) ==
    /\ pc = "call_course_id"
    /\ IF ~resp.ok
       THEN /\ finish(answered("parse_failure"), Raise("ValidationError: response"))
            /\ UNCHANGED idraw
       ELSE /\ idraw' = resp.raw
            /\ IF Truthy(resp.raw.course_name.value)
               THEN /\ pc' = "lookup"
                    /\ log' = Append(answered("ok"),
                                     Lookup(resp.raw.course_name.value,
                                            resp.raw.course_location.value))
                    /\ UNCHANGED <<known, outcome>>
               ELSE enter_full(answered("ok"))
    /\ UNCHANGED <<req, pin, pout>>

\* What find_course_by_name may answer: NullCourseRepository always answers
\* None, a database repository any course or None.
RepoAnswers(course_repo) ==
    IF course_repo = "null" THEN {NoCourse} ELSE Courses \cup {NoCourse}

\* Variant: a course passed by the caller is preferred to the one found.
find_course_by_name_prefers_argument(found_course) ==
    /\ pc = "lookup"
    /\ found_course \in RepoAnswers(req.course_repo)
    /\ IF found_course # NoCourse
       THEN enter_scores_only(answered(found_course.id),
                              IF req.course # NoCourse THEN req.course ELSE found_course)
       ELSE enter_full(answered("none"))
    /\ UNCHANGED <<req, idraw, pin, pout>>

\* _extract_smart after course_repo.find_course_by_name returned.
find_course_by_name(found_course) ==
    /\ pc = "lookup"
    /\ found_course \in RepoAnswers(req.course_repo)
    /\ IF found_course # NoCourse
       THEN enter_scores_only(answered(found_course.id), found_course)
       ELSE enter_full(answered("none"))
    /\ UNCHANGED <<req, idraw, pin, pout>>

\* Variant: the raw response is attached whether or not it was requested.
_extract_full_always_dumps(resp) ==
    /\ pc = "call_full"
    /\ IF ~resp.ok
       THEN finish(answered("parse_failure"), Raise("ValidationError: response"))
       ELSE IF ~build_round_ok(resp.raw) \/ ~confidence_ok(resp.raw.holes)
            THEN finish(returned(resp.raw), Raise("ValidationError: domain model"))
       ELSE finish(returned(resp.raw), ExtractionResult(
                _build_round(resp.raw),
                _build_extraction_confidence(resp.raw),
                model_dump_full(resp.raw)))
    /\ UNCHANGED <<req, idraw, pin, pout>>

\* _extract_full after the Full call returned.
_extract_full(resp) ==
    /\ pc = "call_full"
    /\ IF ~resp.ok
       THEN finish(answered("parse_failure"), Raise("ValidationError: response"))
       ELSE IF ~build_round_ok(resp.raw) \/ ~confidence_ok(resp.raw.holes)
            THEN finish(returned(resp.raw), Raise("ValidationError: domain model"))
       ELSE finish(returned(resp.raw), ExtractionResult(
                _build_round(resp.raw),
                _build_extraction_confidence(resp.raw),
                IF req.include_raw_response THEN model_dump_full(resp.raw) ELSE NoRaw))
    /\ UNCHANGED <<req, idraw, pin, pout>>

\* _extract_scores_only after the Scores-Only call returned.
_extract_scores_only(resp) ==
    /\ pc = "call_scores_only"
    /\ IF ~resp.ok
       THEN finish(answered("parse_failure"), Raise("ValidationError: response"))
       ELSE IF ~build_round_from_scores_ok(resp.raw, known)
               \/ ~confidence_ok(resp.raw.holes)
            THEN finish(returned(resp.raw), Raise("ValidationError: domain model"))
       ELSE finish(returned(resp.raw), ExtractionResult(
                _build_round_from_scores(resp.raw, known),
                _build_scores_only_confidence(resp.raw, known),
                IF req.include_raw_response THEN model_dump_scores(resp.raw) ELSE NoRaw))
    /\ UNCHANGED <<req, idraw, pin, pout>>

Next ==
    \/ \E file_exists \in BOOLEAN, suffix \in Suffixes, api_key \in BOOLEAN,
          strategy \in Strategies, course \in {NoCourse, CourseB},
          course_repo \in Repos, include_raw_response \in BOOLEAN :
            extract_scorecard(file_exists, suffix, api_key, strategy, course,
                              course_repo, include_raw_response)
    \/ \E resp \in Conforming(IdRaws) \cup {ParseFailure} : _extract_smart(resp)
    \/ \E found_course \in Courses \cup {NoCourse} : find_course_by_name(found_course)
    \/ \E resp \in Conforming(DispatchFullRaws) \cup {ParseFailure} : _extract_full(resp)
    \/ \E resp \in Conforming(DispatchScoresRaws) \cup {ParseFailure} : _extract_scores_only(resp)

Spec == Init /\ [][Next]_vars

TypeOK ==
    /\ pc \in {"idle", "call_course_id", "lookup", "call_full", "call_scores_only", "done"}
    /\ outcome.kind \in {"none", "result", "error"}

\* ------------------------------------------- the pure pipeline on its own
\* Model confidences lie on the grid of even multiples of 1/Scale: there
\* llm_conf * val_conf is never a decimal tie, where binary floating point
\* would decide the rounding.
ConfGrid == { 2 * k : k \in 0..(Scale \div 2) }
ValidationConfs == {0, 2000, 3000, 5000, 7000, 8000, Scale}

FieldInputs == { [kind |-> "field", m |-> m, v |-> v] : m \in ConfGrid, v \in ValidationConfs }

PureFullBodies ==
    { [hn |-> hn, par |-> par, handicap |-> hc, strokes |-> st, putts |-> pu,
       fairway_hit |-> fw, green_in_regulation |-> gir] :
         hn \in {"seq", "null", "off"},
         par \in {NullAF, AF(4, Scale), AF(7, 9000)},
         hc \in {NullAF, AF(5, Scale), AF(19, 9000)},
         st \in {NullAF, AF(4, 9000), AF(2, 5000), AF(9, 9000), AF(11, 9000), AF(16, Scale)},
         pu \in {NullAF, AF(2, Scale), AF(3, 7000), AF(11, 9000)},
         fw \in {NullAF, AF(PyTrue, 8000)},
         gir \in {NullAF, AF(PyTrue, 9000), AF(PyFalse, 6000)} }

FullHoleInputs ==
    { [kind |-> "full_hole", hole_index |-> i, hole |-> FullHoleAt(b, i + 1)] :
         b \in PureFullBodies, i \in 0..1 }

PureScoreBodies ==
    { [hn |-> hn, score |-> sc, putts |-> pu] :
         hn \in {"seq", "null", "off"},
         sc \in {NullAF, AF(1, 9000), AF(5, Scale), AF(0 - 5, 8000), AF(12, 9000), AF(0, 7000)},
         pu \in {NullAF, AF(2, Scale), AF(3, 7000), AF(11, 9000)} }

ScoreHoleInputs ==
    { [kind |-> "score_hole", hole_index |-> i, hole |-> ScoreHoleAt(b, i + 1),
       to_par_scoring |-> tp, known_hole |-> kh] :
         b \in PureScoreBodies, i \in 0..1, tp \in BOOLEAN,
         kh \in {NoHole, Hole(1, 4, 1), Hole(1, None, None)} }

TeeNoColor ==
    [color |-> NullStrAF, slope_rating |-> AF(160, 9000),
     course_rating |-> NullAF,
     hole_yardages |-> << [hole_number |-> 1, yardage |-> AF(800, 8000)] >>]

ConfFullBodies ==
    { [hn |-> "seq", par |-> AF(4, Scale), handicap |-> NullAF,
       strokes |-> AF(4, 9000), putts |-> AF(2, Scale),
       fairway_hit |-> NullAF, green_in_regulation |-> AF(PyTrue, 9000)],
      [hn |-> "seq", par |-> AF(4, Scale), handicap |-> NullAF,
       strokes |-> AF(4, 7000), putts |-> AF(2, 4000),
       fairway_hit |-> NullAF, green_in_regulation |-> NullAF],
      [hn |-> "off", par |-> AF(7, 9000), handicap |-> AF(5, Scale),
       strokes |-> AF(2, 8000), putts |-> AF(3, 7000),
       fairway_hit |-> AF(PyTrue, 8000), green_in_regulation |-> NullAF],
      [hn |-> "null", par |-> NullAF, handicap |-> NullAF,
       strokes |-> NullAF, putts |-> NullAF,
       fairway_hit |-> NullAF, green_in_regulation |-> NullAF] }

ConfFullRaws ==
    { [course |-> [name |-> AF("Pebble Beach", 9500), location |-> loc, par |-> cp],
       tees |-> tees,
       tee_played |-> NullStrAF,
       date |-> date,
       player_name |-> AF("Tucker", Scale),
       holes |-> holes,
       totals |-> Totals(ts, fn, AF(None, Scale), AF(None, Scale)),
       notes |-> AF("windy", 8600)] :
         loc \in {NullStrAF, AF("CA", 9000)},
         cp \in {AF(None, Scale), AF(72, 9000), AF(90, Scale)},
         tees \in TeeLists({TeeBlue, TeeNoColor}, MaxTees),
         date \in {AF("2024-06-01", 9000), AF("2024-06-01", 7000), AF(NoStr, 4000)},
         ts \in {AF(None, Scale), AF(8, 9000), AF(6, Scale)},
         fn \in {AF(None, Scale), AF(8, 9000)},
         holes \in FullHoleLists(ConfFullBodies, MaxHoles) }

ConfScoresRaws ==
    { [to_par_scoring |-> tp,
       date |-> NullStrAF,
       player_name |-> AF("Tucker", 9000),
       holes |-> holes] :
         tp \in {AF(PyTrue, 9000), AF(PyFalse, Scale), NullAF},
         holes \in ScoreHoleLists(DispatchScoreBodies, MaxHoles) }

\* Holes with putts 3 on strokes 2, under every pair of model confidences
\* from a set with products that round up, round down and need no rounding.
CrossInputs ==
    { [kind |-> "full_hole", hole_index |-> 0,
       hole |-> FullHoleAt([hn |-> "seq", par |-> NullAF, handicap |-> NullAF,
                            strokes |-> AF(2, ms), putts |-> AF(3, mp),
                            fairway_hit |-> NullAF, green_in_regulation |-> NullAF], 1)] :
         ms \in {0, 2, 3332, 5000, 9002, Scale},
         mp \in {0, 2, 3332, 5000, 9002, Scale} }

\* Cards of nine holes and more: hole 1 with strokes 4, 5 or none, holes 2-9
\* with strokes 4, and up to MaxHoles back-nine holes with strokes 4 or none.
StrokesOnlyHole(i, strokes, putts) ==
    FullHoleAt([hn |-> "seq", par |-> NullAF, handicap |-> NullAF,
                strokes |-> strokes, putts |-> putts,
                fairway_hit |-> NullAF, green_in_regulation |-> NullAF], i)

LongHoleLists ==
    UNION { { [i \in 1..(9 + k) |->
                 IF i = 1 THEN StrokesOnlyHole(i, first, AF(2, Scale))
                 ELSE IF i <= 9 THEN StrokesOnlyHole(i, AF(4, 9000), NullAF)
                 ELSE StrokesOnlyHole(i, back[i - 9], NullAF)] :
              first \in {AF(4, 9000), AF(5, 9000), NullAF},
              back \in [1..k -> {AF(4, 9000), NullAF}] } : k \in 0..MaxHoles }

TotalsRaws ==
    { [course |-> [name |-> AF("Pebble Beach", 9500), location |-> AF("CA", 9000),
                   par |-> AF(None, Scale)],
       tees |-> << >>,
       tee_played |-> NullStrAF,
       date |-> AF("2024-06-01", 9000),
       player_name |-> AF("Tucker", Scale),
       holes |-> holes,
       totals |-> Totals(ts, fn, bn, tp),
       notes |-> AF("windy", 8600)] :
         holes \in LongHoleLists,
         ts \in {AF(None, Scale), AF(44, 9000), AF(36, 9000)},
         fn \in {AF(None, Scale), AF(36, 9000), AF(37, Scale)},
         bn \in {AF(None, Scale), AF(8, 9000), AF(4, Scale)},
         tp \in {AF(None, Scale), AF(2, 9000), AF(3, 9000)} }

ConvertInputs ==
    { [kind |-> "convert", raw_score |-> r, par |-> p, to_par_scoring |-> tp] :
         r \in {None} \cup ((0 - 5)..12), p \in {None} \cup 3..6, tp \in BOOLEAN }

RoundScoresRaws ==
    { [to_par_scoring |-> tp,
       date |-> AF("2024-06-01", 9000),
       player_name |-> AF("Tucker", 9000),
       holes |-> holes] :
         tp \in {AF(PyTrue, 9000), AF(PyFalse, Scale), NullAF},
         holes \in ScoreHoleLists(
                      { [hn |-> hn, score |-> sc, putts |-> AF(1, Scale)] :
                           hn \in {"seq", "null"},
                           sc \in {AF(1, 9000), AF(0 - 1, 8000), NullAF} },
                      MaxHoles) }

RoundInputs ==
    { [kind |-> "scores_round", raw |-> r, course |-> c] :
         r \in RoundScoresRaws, c \in Courses }

\* Holes covering every strokes and putts value around the rule thresholds.
RangeInputs ==
    { [kind |-> "full_hole", hole_index |-> 0,
       hole |-> StrokesOnlyHole(1, AF(s, Scale), AF(p, Scale))] :
         s \in {None} \cup ((0 - 1)..17), p \in {None} \cup ((0 - 1)..12) }

\* Full extractions whose tee labels or yardage keys coincide (two blue tees,
\* a tee named tee_1 before a tee without color, one hole listed twice), and
\* one with two tees where they do not; each with a consistent hole and with
\* a hole whose green_in_regulation final is 0.95 * 0.5 = 0.475, which the
\* review line prints as 0.47.
TeeCollisionRaws ==
    { [course |-> [name |-> AF("Pebble Beach", 9500), location |-> AF("CA", 9000),
                   par |-> AF(None, Scale)],
       tees |-> [i \in 1..Len(tees) |->
                   [color |-> tees[i][1], slope_rating |-> tees[i][2],
                    course_rating |-> AF(72, 9000),
                    hole_yardages |->
                        [j \in 1..Len(tees[i][3]) |->
                            [hole_number |-> 1, yardage |-> tees[i][3][j]]]]],
       tee_played |-> NullStrAF,
       date |-> AF("2024-06-01", 9000),
       player_name |-> AF("Tucker", Scale),
       holes |-> holes,
       totals |-> Totals(AF(None, Scale), AF(None, Scale), AF(None, Scale), AF(None, Scale)),
       notes |-> AF("windy", 8600)] :
         tees \in { << <<AF("blue", Scale), AF(130, 9000), <<AF(400, 9000)>> >>,
                       <<AF("blue", 8000), AF(120, 7000), <<AF(380, 8000)>> >> >>,
                    << <<AF("tee_1", Scale), AF(130, 9000), << >> >>,
                       <<NullStrAF, AF(120, 7000), << >> >> >>,
                    << <<AF("blue", Scale), AF(130, 9000),
                         <<AF(400, 9000), AF(410, 5000)>> >> >>,
                    << <<AF("blue", Scale), AF(130, 9000), <<AF(400, 9000)>> >>,
                       <<AF("white", 8000), AF(120, 7000), <<AF(380, 8000)>> >> >> },
         holes \in FullHoleLists(
                      {CHOOSE b \in ConfFullBodies : b.strokes = AF(4, 9000),
                       [hn |-> "seq", par |-> AF(4, Scale), handicap |-> NullAF,
                        strokes |-> AF(5, 9000), putts |-> AF(2, Scale),
                        fairway_hit |-> NullAF,
                        green_in_regulation |-> AF(PyTrue, 9500)]}, 1) }

\* Scores-only cards whose raw hole numbers follow the position, are null, or
\* repeat hole 1, read against each known course.
ScoresResultInputs ==
    { [kind |-> "scores_result",
       raw |-> [to_par_scoring |-> tp,
                date |-> AF("2024-06-01", 9000),
                player_name |-> AF("Tucker", 9000),
                holes |-> holes],
       course |-> c] :
         tp \in {AF(PyTrue, 9000), AF(PyFalse, Scale)},
         holes \in ScoreHoleLists(
                      { [hn |-> hn, score |-> sc, putts |-> pu] :
                           hn \in {"seq", "null", "one"},
                           sc \in {AF(0 - 1, 9000), AF(1, 9000)},
                           pu \in {AF(3, Scale), NullAF} },
                      MaxHoles),
         c \in Courses }

PureInputs ==
    FieldInputs \cup FullHoleInputs \cup ScoreHoleInputs
    \cup ConvertInputs \cup RoundInputs \cup CrossInputs \cup RangeInputs \cup ScoresResultInputs
    \cup { [kind |-> "full", raw |-> r] : r \in ConfFullRaws \cup TotalsRaws \cup TeeCollisionRaws }
    \cup { [kind |-> "scores", raw |-> r, course |-> c] :
             r \in ConfScoresRaws, c \in Courses }

InitPure ==
    /\ pc = "idle"
    /\ req = NoReq
    /\ known = NoCourse
    /\ idraw = NoId
    /\ log = << >>
    /\ outcome = NoOutcome
    /\ pin \in PureInputs
    /\ pout = NoPure

Dispatcher == <<pc, req, known, idraw, log, outcome>>

\* _build_field_confidence on one (model, validation) confidence pair.
BuildField ==
    /\ pin.kind = "field" /\ pout = NoPure
    /\ pout' = [kind |-> "field",
                fc |-> _build_field_confidence("field", pin.m, pin.v, << >>, "llm")]
    /\ UNCHANGED <<Dispatcher, pin>>

\* One iteration of the hole loop of _build_extraction_confidence.
BuildFullHole ==
    /\ pin.kind = "full_hole" /\ pout = NoPure
    /\ pout' = [kind |-> "hole",
                hole |-> _build_hole_confidence(
                             pin.hole_index, pin.hole, full_field_map(pin.hole),
                             _validate_hole_score(pin.hole, pin.hole_index))]
    /\ UNCHANGED <<Dispatcher, pin>>

\* One iteration of the hole loop of _build_scores_only_confidence.
BuildScoreHole ==
    /\ pin.kind = "score_hole" /\ pout = NoPure
    /\ pout' = [kind |-> "hole",
                hole |-> _build_hole_confidence(
                             pin.hole_index, pin.hole, scores_field_map(pin.hole),
                             _validate_score_only_hole(pin.hole, pin.hole_index,
                                                       pin.to_par_scoring,
                                                       pin.known_hole))]
    /\ UNCHANGED <<Dispatcher, pin>>

BuildFullConfidence ==
    /\ pin.kind = "full" /\ pout = NoPure
    /\ confidence_ok(pin.raw.holes)
    /\ pout' = [kind |-> "confidence",
                confidence |-> _build_extraction_confidence(pin.raw)]
    /\ UNCHANGED <<Dispatcher, pin>>

BuildScoresConfidence ==
    /\ pin.kind = "scores" /\ pout = NoPure
    /\ confidence_ok(pin.raw.holes)
    /\ pout' = [kind |-> "confidence",
                confidence |-> _build_scores_only_confidence(pin.raw, pin.course)]
    /\ UNCHANGED <<Dispatcher, pin>>

\* _convert_score_to_strokes on one raw score.
ConvertScore ==
    /\ pin.kind = "convert" /\ pout = NoPure
    /\ pout' = [kind |-> "strokes",
                strokes |-> _convert_score_to_strokes(pin.raw_score, pin.par,
                                                      pin.to_par_scoring)]
    /\ UNCHANGED <<Dispatcher, pin>>

\* _build_round_from_scores: the round, or the constructor's ValidationError.
BuildRoundFromScores ==
    /\ pin.kind = "scores_round" /\ pout = NoPure
    /\ pout' = IF build_round_from_scores_ok(pin.raw, pin.course)
               THEN [kind |-> "round", ok |-> TRUE,
                     round |-> _build_round_from_scores(pin.raw, pin.course)]
               ELSE [kind |-> "round", ok |-> FALSE, round |-> NoRound]
    /\ UNCHANGED <<Dispatcher, pin>>

\* _extract_scores_only after the call returned: the round and the confidence
\* built from the same raw extraction, or the constructor's ValidationError.
BuildScoresResult ==
    /\ pin.kind = "scores_result" /\ pout = NoPure
    /\ pout' = IF build_round_from_scores_ok(pin.raw, pin.course)
                  /\ confidence_ok(pin.raw.holes)
               THEN [kind |-> "scores_result", ok |-> TRUE,
                     round |-> _build_round_from_scores(pin.raw, pin.course),
                     confidence |-> _build_scores_only_confidence(pin.raw, pin.course)]
               ELSE [kind |-> "scores_result", ok |-> FALSE,
                     round |-> NoRound, confidence |-> NoConf]
    /\ UNCHANGED <<Dispatcher, pin>>

NextPure ==
    \/ ConvertScore
    \/ BuildRoundFromScores
    \/ BuildField
    \/ BuildFullHole
    \/ BuildScoreHole
    \/ BuildFullConfidence
    \/ BuildScoresConfidence
    \/ BuildScoresResult

SpecPure == InitPure /\ [][NextPure]_vars

\* --------------------------------------------------- concurrent requests
\* A host service runs extract_scorecard for several requests at once, one
\* per worker thread.  The names extract_scorecard and its callees assign are
\* locals and arguments; the dispatcher variables map a request to them, and
\* one step is one request running from one blocking call to the next.  What
\* the threads share is held in pin: the process environment, which
\* _create_client reads, and the Course objects of the process.  A Course
\* reaches a request by reference, as the caller's argument or as the
\* repository's answer, is read by conversion and validation after the model
\* call returned, and is the object the returned Round carries.  The host
\* can assign to a Course or to one of its holes at any time through
\* update_field; pin.assigned records the objects as those assignments alone
\* have made them.
Requests == {1, 2}

\* The Course object a course reference leads to, as it is now.
Object(c) == IF c = NoCourse THEN NoCourse ELSE pin.courses[c.id]

LocalState(p, r, k, i, l, o) ==
    [pc |-> p, req |-> r, known |-> k, idraw |-> i, log |-> l, outcome |-> o]

Locals(r) == LocalState(pc[r], req[r], known[r], idraw[r], log[r], outcome[r])

\* The last entry of a log, answered.
Answer(l, a) == [l EXCEPT ![Len(l)].answer = a]

Raised(st, l, name) == [st EXCEPT !.pc = "done", !.log = l, !.outcome = Raise(name)]

\* _extract_full up to its call.
local_enter_full(st, l) ==
    [st EXCEPT !.pc = "call_full",
               !.log = Append(l, ModelCall("Full", GEMINI_MODEL, NoCourse)),
               !.known = NoCourse, !.outcome = NoOutcome]

\* _extract_scores_only up to its call.
local_enter_scores_only(st, l, course) ==
    [st EXCEPT !.pc = "call_scores_only",
               !.log = Append(l, ModelCall("ScoresOnly", GEMINI_MODEL, course)),
               !.known = course, !.outcome = NoOutcome]

\* extract_scorecard up to its first blocking call.
local_extract_scorecard(args) ==
    LET st == LocalState("idle", args, NoCourse, NoId, << >>, NoOutcome)
    IN  IF ~args.file_exists THEN Raised(st, << >>, "FileNotFoundError")
        ELSE IF _get_mime_type(args.suffix) = NoStr
             THEN Raised(st, << >>, "ValueError: Unsupported file type")
        ELSE IF ~args.api_key THEN Raised(st, << >>, "EnvironmentError")
        ELSE IF args.strategy = "full" THEN local_enter_full(st, << >>)
        ELSE IF args.strategy = "scores_only"
             THEN IF args.course = NoCourse
                  THEN Raised(st, << >>, "ValueError: SCORES_ONLY requires course")
                  ELSE local_enter_scores_only(st, << >>, args.course)
        ELSE IF args.strategy = "smart"
             THEN [st EXCEPT !.pc = "call_course_id",
                             !.log = << ModelCall("CourseId", GEMINI_MODEL_FAST, NoCourse) >>]
        ELSE Raised(st, << >>, "ValueError: Unknown strategy")

\* _extract_smart after the identification call returned.
local_extract_smart(st, resp) ==
    IF ~resp.ok
    THEN Raised(st, Answer(st.log, "parse_failure"), "ValidationError: response")
    ELSE IF Truthy(resp.raw.course_name.value)
         THEN [st EXCEPT !.pc = "lookup", !.idraw = resp.raw,
                         !.log = Append(Answer(st.log, "ok"),
                                        Lookup(resp.raw.course_name.value,
                                               resp.raw.course_location.value))]
         ELSE local_enter_full([st EXCEPT !.idraw = resp.raw], Answer(st.log, "ok"))

\* _extract_smart after find_course_by_name returned.
local_find_course_by_name(st, found_course) ==
    IF found_course # NoCourse
    THEN local_enter_scores_only(st, Answer(st.log, found_course.id), found_course)
    ELSE local_enter_full(st, Answer(st.log, "none"))

\* _extract_full after the Full call returned.
local_extract_full(st, resp) ==
    IF ~resp.ok
    THEN Raised(st, Answer(st.log, "parse_failure"), "ValidationError: response")
    ELSE IF ~build_round_ok(resp.raw) \/ ~confidence_ok(resp.raw.holes)
         THEN Raised(st, [Answer(st.log, "ok") EXCEPT ![Len(st.log)].returned = resp.raw], "ValidationError: domain model")
    ELSE [st EXCEPT !.pc = "done", !.log = [Answer(st.log, "ok") EXCEPT ![Len(st.log)].returned = resp.raw],
                    !.outcome = ExtractionResult(
                        _build_round(resp.raw),
                        _build_extraction_confidence(resp.raw),
                        IF st.req.include_raw_response
                        THEN model_dump_full(resp.raw) ELSE NoRaw)]

\* _extract_scores_only after the Scores-Only call returned.
local_extract_scores_only(st, resp) ==
    IF ~resp.ok
    THEN Raised(st, Answer(st.log, "parse_failure"), "ValidationError: response")
    ELSE IF ~build_round_from_scores_ok(resp.raw, st.known) \/ ~confidence_ok(resp.raw.holes)
         THEN Raised(st, [Answer(st.log, "ok") EXCEPT ![Len(st.log)].returned = resp.raw], "ValidationError: domain model")
    ELSE [st EXCEPT !.pc = "done", !.log = [Answer(st.log, "ok") EXCEPT ![Len(st.log)].returned = resp.raw],
                    !.outcome = ExtractionResult(
                        _build_round_from_scores(resp.raw, st.known),
                        _build_scores_only_confidence(resp.raw, st.known),
                        IF st.req.include_raw_response
                        THEN model_dump_scores(resp.raw) ELSE NoRaw)]

\* Request r moves to the local state st; every other request stays.
Advance(r, st) ==
    /\ pc' = [pc EXCEPT ![r] = st.pc]
    /\ req' = [req EXCEPT ![r] = st.req]
    /\ known' = [known EXCEPT ![r] = st.known]
    /\ idraw' = [idraw EXCEPT ![r] = st.idraw]
    /\ log' = [log EXCEPT ![r] = st.log]
    /\ outcome' = [outcome EXCEPT ![r] = st.outcome]
    /\ UNCHANGED <<pin, pout>>

InitConcurrent ==
    /\ pc = [r \in Requests |-> "idle"]
    /\ req = [r \in Requests |-> NoReq]
    /\ known = [r \in Requests |-> NoCourse]
    /\ idraw = [r \in Requests |-> NoId]
    /\ log = [r \in Requests |-> << >>]
    /\ outcome = [r \in Requests |-> NoOutcome]
    /\ \E key \in BOOLEAN :
          pin = [kind |-> "process", GOOGLE_API_KEY |-> key,
                 courses |-> [id \in {"A", "B"} |-> IF id = "A" THEN CourseA ELSE CourseB],
                 assigned |-> [id \in {"A", "B"} |-> IF id = "A" THEN CourseA ELSE CourseB]]
    /\ pout = NoPure

\* extract_scorecard is called: the key is read from the environment, the
\* course argument is the caller's Course object.
StartRequest(r, file_exists, strategy, course) ==
    /\ pc[r] = "idle"
    /\ Advance(r, local_extract_scorecard(
                      [file_exists |-> file_exists, suffix |-> ".jpg",
                       api_key |-> pin.GOOGLE_API_KEY, strategy |-> strategy,
                       course |-> Object(course), course_repo |-> "db",
                       include_raw_response |-> FALSE]))

CourseIdReturns(r, resp) ==
    /\ pc[r] = "call_course_id"
    /\ Advance(r, local_extract_smart(Locals(r), resp))

\* Course.update_field on the Course object id: setattr under
\* validate_assignment.  A value the field refuses leaves the object as it
\* was (the method then returns the message instead of None).
Course_update_field(id, field_name, value) ==
    /\ pin' = IF Course_ok([pin.courses[id] EXCEPT ![field_name] = value])
              THEN [pin EXCEPT !.courses[id][field_name] = value,
                               !.assigned[id][field_name] = value]
              ELSE pin
    /\ UNCHANGED <<Dispatcher, pout>>

\* Hole.update_field on hole number of the Course object id.
Hole_update_field(id, number, field_name, value) ==
    /\ number \in 1..Len(pin.courses[id].holes)
    /\ pin' = IF Hole_ok([pin.courses[id].holes[number] EXCEPT ![field_name] = value])
              THEN [pin EXCEPT !.courses[id].holes[number][field_name] = value,
                               !.assigned[id].holes[number][field_name] = value]
              ELSE pin
    /\ UNCHANGED <<Dispatcher, pout>>

\* The repository answers with a Course object of the process or with none.
LookupReturns(r, found_course) ==
    /\ pc[r] = "lookup"
    /\ found_course \in RepoAnswers(req[r].course_repo)
    /\ Advance(r, local_find_course_by_name(Locals(r), Object(found_course)))

FullReturns(r, resp) ==
    /\ pc[r] = "call_full"
    /\ Advance(r, local_extract_full(Locals(r), resp))

\* Variant: conversion trims the holes of the Course object it was given to
\* the holes on the card.
ScoresOnlyReturns_trims_course(r, resp) ==
    /\ pc[r] = "call_scores_only"
    /\ LET st == local_extract_scores_only(
                     [Locals(r) EXCEPT !.known = Object(known[r])], resp)
       IN  /\ pc' = [pc EXCEPT ![r] = st.pc]
           /\ known' = [known EXCEPT ![r] = st.known]
           /\ log' = [log EXCEPT ![r] = st.log]
           /\ outcome' = [outcome EXCEPT ![r] = st.outcome]
           /\ pin' = IF resp.ok
                     THEN [pin EXCEPT !.courses[known[r].id].holes =
                              SubSeq(@, 1, PyMin(Len(@), Len(resp.raw.holes)))]
                     ELSE pin
           /\ UNCHANGED <<req, idraw, pout>>

\* The Scores-Only call returned: conversion and validation read the Course
\* object the request holds, as it is at this moment.
ScoresOnlyReturns(r, resp) ==
    /\ pc[r] = "call_scores_only"
    /\ Advance(r, local_extract_scores_only(
                      [Locals(r) EXCEPT !.known = Object(known[r])], resp))

NextConcurrent ==
    \/ \E r \in Requests, file_exists \in BOOLEAN,
          strategy \in {"full", "scores_only", "smart"}, course \in {NoCourse, CourseB} :
          StartRequest(r, file_exists, strategy, course)
    \/ \E r \in Requests, resp \in Conforming(IdRaws) \cup {ParseFailure} :
          CourseIdReturns(r, resp)
    \/ \E r \in Requests, found_course \in Courses \cup {NoCourse} :
          LookupReturns(r, found_course)
    \/ \E r \in Requests, resp \in Conforming({ x \in DispatchFullRaws :
                 /\ x.course.par = NullAF /\ x.tees = << >> /\ x.date = NullStrAF
                 /\ x.tee_played = NullStrAF
                 /\ Len(x.holes) = 1 /\ x.holes[1].putts = AF(2, Scale) }) \cup {ParseFailure} :
          FullReturns(r, resp)
    \/ \E r \in Requests, resp \in Conforming({ x \in DispatchScoresRaws :
                 /\ x.to_par_scoring = AF(PyFalse, Scale) /\ Len(x.holes) = 1
                 /\ x.holes[1].putts = NullAF
                 /\ x.holes[1].score # NullAF }) \cup {ParseFailure} :
          ScoresOnlyReturns(r, resp)

    \/ \E value \in {70, 90} : Course_update_field("B", "par", value)
    \/ \E value \in {4, 7} : Hole_update_field("B", 1, "par", value)

SpecConcurrent == InitConcurrent /\ [][NextConcurrent]_vars

\* --------------------------------------------------- the /extract endpoint
\* extract_scan: pin is the HTTP request, pout the state of the handler
\* (tmp_exists: the temporary file is on disk), and the dispatcher variables
\* hold the extract_scorecard call it awaits.
allowed == {".jpg", ".jpeg", ".png", ".webp", ".heic", ".pdf"}

\* The response body; model_dump(mode="json") turns the round's datetime
\* into an ISO string and leaves None as it is.
ScanResponse(result) ==
    [kind |-> "ScanResponse",
     round |-> [result.round EXCEPT
                   !.date = IF result.round.date = NoDate THEN NoStr
                            ELSE IF result.round.date = <<2024, 6, 1>>
                                 THEN "2024-06-01T00:00:00"
                                 ELSE "other"],
     confidence |-> result.confidence,
     fields_needing_review |-> result.confidence.fields_needing_review]

HTTPException(status, detail) ==
    [kind |-> "HTTPException", status_code |-> status, detail |-> detail]

Handler(stage, tmp_created, tmp_exists, uploaded, status, body) ==
    [kind |-> "scan", stage |-> stage, tmp_created |-> tmp_created,
     tmp_exists |-> tmp_exists, uploaded |-> uploaded,
     status |-> status, body |-> body]

\* extract_scan from the request to the await on the executor: the handler
\* is suspended with the upload on disk and extract_scorecard not yet started.
\* copy_ok is whether shutil.copyfileobj completed; when it raises, the
\* exception leaves the handler before the try block is entered.
extract_scan(filename_suffix, strategy, copy_ok) ==
    /\ pc = "idle" /\ pout = NoPure
    /\ pin' = [kind |-> "upload", filename_suffix |-> filename_suffix,
               strategy |-> strategy, copy_ok |-> copy_ok]
    /\ pout' = IF Lower(filename_suffix) \notin allowed
               THEN Handler("finished", FALSE, FALSE, FALSE, 400,
                            HTTPException(400, "Unsupported file type"))
               ELSE IF ~copy_ok
               THEN Handler("finished", TRUE, TRUE, FALSE, 500,
                            HTTPException(500, "Internal Server Error"))
               ELSE Handler("awaiting", TRUE, TRUE, TRUE, 0, NoPure)
    /\ UNCHANGED Dispatcher

\* The executor's worker thread starts the lambda some time after the handler
\* was suspended: extract_scorecard up to its first blocking call.  What it
\* finds is read then, not when the handler ran: file_exists is whether the
\* temporary file is still on disk, api_key whether GOOGLE_API_KEY is set.
run_in_executor(file_exists, api_key) ==
    /\ pout # NoPure /\ pout.stage = "awaiting" /\ pc = "idle"
    /\ LET strat == IF pin.strategy \in {"full", "scores_only", "smart"}
                    THEN pin.strategy ELSE "full"
           st == local_extract_scorecard(
                     [file_exists |-> file_exists,
                      suffix |-> Lower(pin.filename_suffix),
                      api_key |-> api_key, strategy |-> strat,
                      course |-> NoCourse, course_repo |-> "db",
                      include_raw_response |-> FALSE])
       IN  /\ pc' = st.pc
           /\ req' = st.req
           /\ known' = st.known
           /\ idraw' = st.idraw
           /\ log' = st.log
           /\ outcome' = st.outcome
    /\ pout' = [pout EXCEPT !.tmp_exists = file_exists]
    /\ UNCHANGED pin

\* Variant: the temporary file is removed only after a successful extraction.
extract_scan_returns_keeps_on_error ==
    /\ pout # NoPure /\ pout.stage = "awaiting" /\ pc = "done"
    /\ pout' =
          IF outcome.kind = "result"
          THEN [pout EXCEPT !.stage = "finished", !.tmp_exists = FALSE,
                            !.status = 200, !.body = ScanResponse(outcome)]
          ELSE IF outcome.error = "FileNotFoundError"
          THEN [pout EXCEPT !.stage = "finished", !.status = 400,
                    !.body = HTTPException(400, "Uploaded file could not be processed")]
          ELSE IF outcome.error = "EnvironmentError"
          THEN [pout EXCEPT !.stage = "finished", !.status = 500,
                    !.body = HTTPException(500, outcome.error)]
          ELSE [pout EXCEPT !.stage = "finished", !.status = 500,
                    !.body = HTTPException(500, <<"Extraction failed", outcome.error>>)]
    /\ UNCHANGED <<Dispatcher, pin>>

\* extract_scan after the executor call ended: the response or the
\* HTTPException, and the finally clause that unlinks the temporary file.
extract_scan_returns ==
    /\ pout # NoPure /\ pout.stage = "awaiting" /\ pc = "done"
    /\ pout' =
          IF outcome.kind = "result"
          THEN [pout EXCEPT !.stage = "finished", !.tmp_exists = FALSE,
                            !.status = 200, !.body = ScanResponse(outcome)]
          ELSE IF outcome.error = "FileNotFoundError"
          THEN [pout EXCEPT !.stage = "finished", !.tmp_exists = FALSE, !.status = 400,
                    !.body = HTTPException(400, "Uploaded file could not be processed")]
          ELSE IF outcome.error = "EnvironmentError"
          THEN [pout EXCEPT !.stage = "finished", !.tmp_exists = FALSE, !.status = 500,
                    !.body = HTTPException(500, outcome.error)]
          ELSE [pout EXCEPT !.stage = "finished", !.tmp_exists = FALSE, !.status = 500,
                    !.body = HTTPException(500, <<"Extraction failed", outcome.error>>)]
    /\ UNCHANGED <<Dispatcher, pin>>

NextScan ==
    \/ \E filename_suffix \in Suffixes, strategy \in Strategies, copy_ok \in BOOLEAN :
          extract_scan(filename_suffix, strategy, copy_ok)
    \/ \E file_exists \in BOOLEAN, api_key \in BOOLEAN :
          run_in_executor(file_exists, api_key)
    \/ extract_scan_returns
    \/ \E resp \in Conforming(IdRaws) \cup {ParseFailure} : _extract_smart(resp)
    \/ \E found_course \in Courses \cup {NoCourse} : find_course_by_name(found_course)
    \/ \E resp \in Conforming(DispatchFullRaws) \cup {ParseFailure} : _extract_full(resp)
    \/ \E resp \in Conforming(DispatchScoresRaws) \cup {ParseFailure} : _extract_scores_only(resp)

SpecScan == Init /\ [][NextScan]_vars

\* ================================================================= claims
ModelCalls == SelectSeq(log, LAMBDA e : e.op = "model")
Lookups == SelectSeq(log, LAMBDA e : e.op = "lookup")
ExtractionCalls == SelectSeq(ModelCalls, LAMBDA e : e.schema \in {"Full", "ScoresOnly"})
IsCourseIdCall(e) == e.op = "model" /\ e.schema = "CourseId"
IsExtractionCall(e) == e.op = "model" /\ e.schema \in {"Full", "ScoresOnly"}
Identified == req.strategy = "smart" /\ log # << >> /\ log[1].answer = "ok"

\* C1: in a SMART run whose identification call succeeded, the extraction call
\* uses the Scores-Only schema with exactly the course the repository lookup
\* returned when it returned one, and the Full schema with no known course
\* otherwise; a returned round is built on that course.
C1_SmartSecondPhase ==
    (req.strategy = "smart" /\ ExtractionCalls # << >>) =>
        /\ Len(ExtractionCalls) = 1
        /\ LET e == ExtractionCalls[1]
               found == IF Lookups = << >> THEN "none" ELSE Lookups[1].answer
           IN  IF found # "none"
               THEN /\ e.schema = "ScoresOnly"
                    /\ e.course = found
                    /\ known.id = found
                    /\ outcome.kind = "result" => outcome.round.course.id = found
               ELSE /\ e.schema = "Full"
                    /\ known = NoCourse

C1_Witness ==
    /\ req.strategy = "smart"
    /\ outcome.kind = "result"
    /\ Lookups # << >>
    /\ Lookups[1].answer = "A"
    /\ req.course = CourseB
    /\ known = CourseA

\* C2: a successful FULL or SCORES_ONLY extract has made exactly one model
\* call, with the Full or the Scores-Only schema, and no repository lookup.
C2_OneCallNoLookup ==
    (outcome.kind = "result" /\ req.strategy \in {"full", "scores_only"}) =>
        /\ Len(log) = 1
        /\ log[1].op = "model"
        /\ log[1].schema = (IF req.strategy = "full" THEN "Full" ELSE "ScoresOnly")
        /\ Lookups = << >>

C2_Witness ==
    /\ outcome.kind = "result"
    /\ req.strategy = "scores_only"
    /\ req.course_repo = "db"

\* C3 as stated: every SMART run whose identification call succeeded makes
\* the repository lookup, and a successful SMART run is the identification
\* call, the lookup of the identified (name, location), one extraction call.
C3_Original ==
    /\ Identified => Len(Lookups) = 1
    /\ (req.strategy = "smart" /\ outcome.kind = "result") =>
          /\ Len(log) = 3
          /\ IsCourseIdCall(log[1])
          /\ log[2].op = "lookup"
          /\ log[2].name = idraw.course_name.value
          /\ log[2].location = idraw.course_location.value
          /\ IsExtractionCall(log[3])
          /\ Len(ModelCalls) = 2

\* C3 amended: the lookup is made exactly when the identified course name is
\* non-empty; a successful SMART run is the identification call, then that
\* lookup if any, then one extraction call, which uses the Full schema when
\* there was no lookup; two model calls in total.
C3_Amended ==
    /\ Identified =>
          Len(Lookups) = (IF Truthy(idraw.course_name.value) THEN 1 ELSE 0)
    /\ (req.strategy = "smart" /\ outcome.kind = "result") =>
          /\ IsCourseIdCall(log[1])
          /\ Len(ModelCalls) = 2
          /\ IF Truthy(idraw.course_name.value)
             THEN /\ Len(log) = 3
                  /\ log[2].op = "lookup"
                  /\ log[2].name = idraw.course_name.value
                  /\ log[2].location = idraw.course_location.value
                  /\ IsExtractionCall(log[3])
             ELSE /\ Len(log) = 2
                  /\ log[2].op = "model"
                  /\ log[2].schema = "Full"

C3_Witness ==
    /\ req.strategy = "smart"
    /\ outcome.kind = "result"
    /\ ~Truthy(idraw.course_name.value)
    /\ Len(log) = 2

\* C4: a request with a missing file, an unsupported file type, no API key,
\* SCORES_ONLY without a course or an unknown strategy ends in the matching
\* error with no model call and no repository lookup made.
PreCallErrors ==
    {"FileNotFoundError", "ValueError: Unsupported file type", "EnvironmentError",
     "ValueError: SCORES_ONLY requires course", "ValueError: Unknown strategy"}

BadRequest ==
    \/ ~req.file_exists
    \/ ~DictHas(MIME_TYPES, Lower(req.suffix))
    \/ ~req.api_key
    \/ (req.strategy = "scores_only" /\ req.course = NoCourse)
    \/ req.strategy \notin {"full", "scores_only", "smart"}

C4_NoCallBeforeError ==
    /\ (pc # "idle" /\ BadRequest) =>
          /\ pc = "done"
          /\ outcome.kind = "error"
          /\ outcome.error \in PreCallErrors
          /\ log = << >>
    /\ (outcome.kind = "error" /\ outcome.error \in PreCallErrors) => log = << >>

C4_Witness ==
    /\ outcome.kind = "error"
    /\ outcome.error = "ValueError: SCORES_ONLY requires course"
    /\ req.file_exists
    /\ req.api_key
    /\ log = << >>

\* C5: a model call answered with a parse failure is the last call of the
\* run: the run ends there with that error and no round or confidence, and
\* once a run has ended in an error nothing more is called or returned.
C5_ParseFailureEndsRun ==
    /\ [](\A i \in 1..Len(log) :
            log[i].answer = "parse_failure" =>
                /\ i = Len(log)
                /\ pc = "done"
                /\ outcome.kind = "error"
                /\ outcome.error = "ValidationError: response"
                /\ outcome.round = NoRound
                /\ outcome.confidence = NoConf)
    /\ [][outcome.kind = "error" => (log' = log /\ outcome' = outcome)]_vars

C5_Witness ==
    /\ req.strategy = "smart"
    /\ Len(log) = 1
    /\ log[1].answer = "parse_failure"
    /\ outcome.kind = "error"

\* C6: every extraction call answered with a schema-conforming raw extraction
\* ends in a result, whatever values the raw extraction carries.
C6_Claim ==
    (pc = "done" /\ log # << >> /\ IsExtractionCall(log[Len(log)])
        /\ log[Len(log)].answer = "ok") => outcome.kind = "result"

\* ---- the confidence objects of a pure run
SeqRange(q) == { q[i] : i \in 1..Len(q) }

HoleConfidencesBuilt ==
    IF pout.kind = "hole" THEN {pout.hole}
    ELSE IF pout.kind = "confidence" THEN SeqRange(pout.confidence.hole_scores)
    ELSE {}

FieldConfidencesBuilt ==
    (IF pout.kind = "field" THEN {pout.fc} ELSE {})
    \cup UNION { SeqRange(DictValues(h.fields)) : h \in HoleConfidencesBuilt }
    \cup (IF pout.kind = "confidence"
          THEN SeqRange(DictValues(pout.confidence.course.fields))
               \cup SeqRange(DictValues(pout.confidence.round_fields))
          ELSE {})

Abs(n) == IF n < 0 THEN 0 - n ELSE n

\* C7: every field confidence built carries the product of its model and
\* validation confidence rounded to four decimals (the nearest multiple of
\* 1/Scale); that value lies in [0, 1], never exceeds the validation
\* confidence, and is 0 when the validation confidence is 0.
C7_FinalIsRoundedProduct ==
    /\ pout.kind = "field" =>
          /\ pout.fc.llm_confidence = pin.m
          /\ pout.fc.validation_confidence = pin.v
    /\ \A fc \in FieldConfidencesBuilt :
          LET m == fc.llm_confidence
              v == fc.validation_confidence
              f == fc.final_confidence
          IN  /\ 2 * Abs(m * v - f * Scale) <= Scale
              /\ 0 <= f /\ f <= Scale
              /\ f <= v
              /\ (v = 0 => f = 0)

C7_Witness ==
    /\ pout.kind = "field"
    /\ pin.m = 3332 /\ pin.v = 7000
    /\ pout.fc.final_confidence = 2332

\* The level the thresholds give a score, stated threshold by threshold.
HasLevel(score, level) ==
    /\ level \in {"HIGH", "MEDIUM", "LOW", "VERY_LOW"}
    /\ (level = "HIGH" <=> score >= 8500)
    /\ (level = "MEDIUM" <=> (6000 <= score /\ score < 8500))
    /\ (level = "LOW" <=> (3000 <= score /\ score < 6000))
    /\ (level = "VERY_LOW" <=> score < 3000)

\* C8: a score of 0.85 or more is HIGH, from 0.60 up to 0.85 MEDIUM, from
\* 0.30 up to 0.60 LOW, below 0.30 VERY_LOW; and every field, hole, course
\* and extraction confidence built carries the level of its own score.
C8_LevelIsBucketOfScore ==
    /\ pin.kind = "field" => HasLevel(pin.m, to_level(pin.m))
    /\ \A fc \in FieldConfidencesBuilt : HasLevel(fc.final_confidence, fc.level)
    /\ \A h \in HoleConfidencesBuilt : HasLevel(h.overall, h.level)
    /\ pout.kind = "confidence" =>
          /\ HasLevel(pout.confidence.course.overall, pout.confidence.course.level)
          /\ HasLevel(pout.confidence.overall, pout.confidence.level)

C8_Witness ==
    /\ pout.kind = "confidence"
    /\ pin.kind = "full"
    /\ pout.confidence.course.level = "HIGH"
    /\ pout.confidence.level = "LOW"
    /\ \E i \in 1..Len(pout.confidence.hole_scores) :
          /\ pout.confidence.hole_scores[i].level = "LOW"
          /\ \E j \in 1..Len(pout.confidence.hole_scores[i].fields) :
                pout.confidence.hole_scores[i].fields[j].v.level = "MEDIUM"

\* The finals of the fields of a hole confidence whose raw value is not null.
NonNullFinals(h, raw_hole) ==
    { h.fields[j].v.final_confidence :
        j \in { j \in 1..Len(h.fields) : raw_hole[h.fields[j].k].value # None } }

IsMinOf(x, S) == x \in S /\ \A y \in S : x <= y

HoleOverallOK(h, raw_hole) ==
    IF NonNullFinals(h, raw_hole) = {} THEN h.overall = 0
    ELSE IsMinOf(h.overall, NonNullFinals(h, raw_hole))

\* C9: a hole's overall is the least final confidence among its fields whose
\* raw value is not null, and 0 when every raw field of the hole is null, on
\* the full path and on the scores-only path alike.
C9_HoleOverallIsMinOfNonNull ==
    /\ pout.kind = "hole" => HoleOverallOK(pout.hole, pin.hole)
    /\ pout.kind = "confidence" =>
          \A i \in 1..Len(pout.confidence.hole_scores) :
              HoleOverallOK(pout.confidence.hole_scores[i], pin.raw.holes[i])

C9_Witness ==
    /\ pout.kind = "hole"
    /\ pin.kind = "full_hole"
    /\ pout.hole.overall > 0
    /\ \E j \in 1..Len(pout.hole.fields) :
          /\ pin.hole[pout.hole.fields[j].k].value = None
          /\ pout.hole.fields[j].v.final_confidence < pout.hole.overall

\* C10: an extraction's overall is the least of its holes' overalls, its
\* course's overall and the finals of its round-level fields.
C10_ExtractionOverallIsMin ==
    pout.kind = "confidence" =>
        LET c == pout.confidence
        IN  IsMinOf(c.overall,
                    { c.hole_scores[i].overall : i \in 1..Len(c.hole_scores) }
                    \cup {c.course.overall}
                    \cup { c.round_fields[i].v.final_confidence :
                             i \in 1..Len(c.round_fields) })

C10_Witness ==
    /\ pout.kind = "confidence"
    /\ pin.kind = "full"
    /\ Len(pout.confidence.hole_scores) = MaxHoles
    /\ pout.confidence.overall = pout.confidence.course.overall
    /\ \A i \in 1..Len(pout.confidence.hole_scores) :
          pout.confidence.hole_scores[i].overall > pout.confidence.overall
    /\ \A i \in 1..Len(pout.confidence.round_fields) :
          pout.confidence.round_fields[i].v.final_confidence > pout.confidence.overall

\* ---- the review list of an extraction confidence
LowKeys(fields, context, hole_number) ==
    { <<context, hole_number, fields[j].k>> :
        j \in { j \in 1..Len(fields) : fields[j].v.final_confidence < 6000 } }

\* The (context, hole number, field name) of every field built whose final
\* confidence is below 0.60.
FieldsBelowMedium(c) ==
    UNION { LowKeys(c.hole_scores[i].fields, "Hole", c.hole_scores[i].hole_number) :
              i \in 1..Len(c.hole_scores) }
    \cup LowKeys(c.course.fields, "Course", None)
    \cup LowKeys(c.round_fields, "Round", None)

ReviewKey(line) == <<line.context, line.hole_number, line.field>>

\* C11: the review list has exactly one entry for each hole, course and
\* round-level field whose final confidence is below 0.60 (level LOW or
\* VERY_LOW), none for any other field, and as many entries as such fields.
C11_ReviewListIsExact ==
    pout.kind = "confidence" =>
        LET c == pout.confidence
            review == c.fields_needing_review
        IN  /\ { ReviewKey(review[i]) : i \in 1..Len(review) } = FieldsBelowMedium(c)
            /\ \A i, j \in 1..Len(review) :
                  ReviewKey(review[i]) = ReviewKey(review[j]) => i = j
            /\ Len(review) = Cardinality(FieldsBelowMedium(c))

C11_Witness ==
    /\ pout.kind = "confidence"
    /\ pin.kind = "full"
    /\ \A context \in {"Hole", "Course", "Round"} :
          \E i \in 1..Len(pout.confidence.fields_needing_review) :
              pout.confidence.fields_needing_review[i].context = context
    /\ \E i \in 1..Len(pout.confidence.hole_scores) :
          \E j \in 1..Len(pout.confidence.hole_scores[i].fields) :
              pout.confidence.hole_scores[i].fields[j].v.level = "MEDIUM"

\* ---- stroke conversion on the scores-only path
\* The par the known course gives for a raw hole: the par of the hole at the
\* position the raw hole number names, None when there is no such hole.
KnownPar(course, raw_hole) ==
    LET n == raw_hole.hole_number.value
    IN  IF n # None /\ n \in 1..Len(course.holes) THEN course.holes[n].par ELSE None

\* C12: a non-null raw score r converts to r itself when scoring is not
\* to-par, and to P + r when scoring is to-par and the known hole par is P,
\* in the conversion function and in every round built from scores.
C12_StrokeConversion ==
    /\ (pout.kind = "strokes" /\ pin.raw_score # None) =>
          /\ ~pin.to_par_scoring => pout.strokes = pin.raw_score
          /\ (pin.to_par_scoring /\ pin.par # None) =>
                pout.strokes = pin.par + pin.raw_score
    /\ (pout.kind = "round" /\ pout.ok) =>
          \A i \in 1..Len(pin.raw.holes) :
              LET r == pin.raw.holes[i].score.value
                  P == KnownPar(pin.course, pin.raw.holes[i])
                  strokes == pout.round.hole_scores[i].strokes
              IN  r # None =>
                    /\ pin.raw.to_par_scoring.value # PyTrue => strokes = r
                    /\ (pin.raw.to_par_scoring.value = PyTrue /\ P # None) =>
                          strokes = P + r

C12_Witness ==
    /\ pout.kind = "round" /\ pout.ok
    /\ pin.raw.to_par_scoring.value = PyTrue
    /\ pin.course = CourseA
    /\ Len(pin.raw.holes) >= 1
    /\ pin.raw.holes[1].score.value = 1
    /\ KnownPar(pin.course, pin.raw.holes[1]) = 4
    /\ pout.round.hole_scores[1].strokes = 5

\* C13: with to-par scoring, a non-null raw score on a hole for which the known
\* course gives no par converts to null strokes.
C13_Claim ==
    /\ (pout.kind = "strokes" /\ pin.to_par_scoring /\ pin.par = None) =>
          pout.strokes = None
    /\ (pout.kind = "round" /\ pout.ok /\ pin.raw.to_par_scoring.value = PyTrue) =>
          \A i \in 1..Len(pin.raw.holes) :
              KnownPar(pin.course, pin.raw.holes[i]) = None =>
                  pout.round.hole_scores[i].strokes = None

\* ---- single-hole scenarios
FieldOf(h, name) == DictGet(h.fields, name, NoPure)

\* A full hole whose strokes field no cross-field rule touches.
NoPuttsViolation(raw_hole) ==
    raw_hole.putts.value = None \/ raw_hole.putts.value <= raw_hole.strokes.value

\* C14 as stated: strokes 9 read with model confidence 0.9, nothing else
\* wrong, gets validation confidence 0.7, final 0.63 and level MEDIUM.
C14_Original ==
    (pout.kind = "hole" /\ pin.kind = "full_hole"
        /\ pin.hole.strokes = AF(9, 9000) /\ NoPuttsViolation(pin.hole)) =>
        LET fc == FieldOf(pout.hole, "strokes")
        IN  /\ fc.validation_confidence = 7000
            /\ fc.final_confidence = 6300
            /\ fc.level = "MEDIUM"

\* C14 amended: strokes from 11 to 15 read with model confidence 0.9, nothing
\* else wrong, get validation confidence 0.7, final 0.63 and level MEDIUM;
\* strokes 9 keep validation confidence 1.0, final 0.9 and level HIGH.
C14_Amended ==
    (pout.kind = "hole" /\ pin.kind = "full_hole"
        /\ pin.hole.strokes.confidence = 9000 /\ pin.hole.strokes.value # None
        /\ NoPuttsViolation(pin.hole)) =>
        LET fc == FieldOf(pout.hole, "strokes")
        IN  /\ pin.hole.strokes.value \in 11..15 =>
                  /\ fc.validation_confidence = 7000
                  /\ fc.final_confidence = 6300
                  /\ fc.level = "MEDIUM"
            /\ pin.hole.strokes.value = 9 =>
                  /\ fc.validation_confidence = Scale
                  /\ fc.final_confidence = 9000
                  /\ fc.level = "HIGH"

C14_Witness ==
    /\ pout.kind = "hole" /\ pin.kind = "full_hole"
    /\ pin.hole.strokes = AF(11, 9000)
    /\ pin.hole.putts = AF(2, Scale)
    /\ FieldOf(pout.hole, "strokes").final_confidence = 6300
    /\ FieldOf(pout.hole, "strokes").level = "MEDIUM"

\* ---- putts greater than strokes
PuttsExceed(strokes, putts) == strokes # None /\ putts # None /\ putts > strokes

\* The strokes a scores-only hole is validated with: the raw score converted
\* with the par of the known hole at the hole's position.
ValidatedStrokes(raw, course, i) ==
    _convert_score_to_strokes(raw.holes[i].score.value,
                              get_hole(course, i).par,
                              raw.to_par_scoring.value = PyTrue)

InReview(c, hole_number, name) ==
    \E k \in 1..Len(c.fields_needing_review) :
        ReviewKey(c.fields_needing_review[k]) = <<"Hole", hole_number, name>>

\* What C15 asks of the two fields of a hole; slack is the amount by which the
\* strokes final may exceed 0.3 times the model confidence, in 1/Scale^2.
PuttsZeroStrokesCapped(h, strokes_name, strokes_llm, slack) ==
    /\ FieldOf(h, "putts").final_confidence = 0
    /\ FieldOf(h, "putts").level = "VERY_LOW"
    /\ FieldOf(h, strokes_name).llm_confidence = strokes_llm
    /\ FieldOf(h, strokes_name).final_confidence * Scale <= 3000 * strokes_llm + slack

CrossRule(slack) ==
    /\ (pout.kind = "hole" /\ pin.kind = "full_hole"
          /\ PuttsExceed(pin.hole.strokes.value, pin.hole.putts.value)) =>
          PuttsZeroStrokesCapped(pout.hole, "strokes", pin.hole.strokes.confidence, slack)
    /\ (pout.kind = "confidence" /\ pin.kind = "full") =>
          \A i \in 1..Len(pin.raw.holes) :
              PuttsExceed(pin.raw.holes[i].strokes.value, pin.raw.holes[i].putts.value) =>
                  /\ PuttsZeroStrokesCapped(pout.confidence.hole_scores[i], "strokes",
                                            pin.raw.holes[i].strokes.confidence, slack)
                  /\ InReview(pout.confidence, i, "putts")
                  /\ InReview(pout.confidence, i, "strokes")
    /\ (pout.kind = "confidence" /\ pin.kind = "scores") =>
          \A i \in 1..Len(pin.raw.holes) :
              PuttsExceed(ValidatedStrokes(pin.raw, pin.course, i),
                          pin.raw.holes[i].putts.value) =>
                  /\ PuttsZeroStrokesCapped(pout.confidence.hole_scores[i], "score",
                                            pin.raw.holes[i].score.confidence, slack)
                  /\ InReview(pout.confidence, i, "putts")
                  /\ InReview(pout.confidence, i, "score")

\* C15 as stated: with putts greater than strokes, putts end at final 0.0 and
\* VERY_LOW, strokes end at no more than 0.3 times their model confidence, and
\* both are listed for review.
C15_Original == CrossRule(0)

\* C15 amended: the same, with the strokes final at no more than 0.3 times
\* the model confidence rounded to four decimals, which can lie up to
\* 0.00005 above the unrounded product.
C15_Amended == CrossRule(Scale \div 2)

C15_Witness ==
    /\ pout.kind = "confidence" /\ pin.kind = "full"
    /\ \E i \in 1..Len(pin.raw.holes) :
          /\ pin.raw.holes[i].strokes = AF(2, 8000)
          /\ pin.raw.holes[i].putts = AF(3, 7000)
          /\ FieldOf(pout.confidence.hole_scores[i], "putts").final_confidence = 0
          /\ FieldOf(pout.confidence.hole_scores[i], "strokes").final_confidence = 2400
          /\ InReview(pout.confidence, i, "strokes")

\* ---- totals of a full extraction
RECURSIVE SumOver(_, _)
SumOver(f, S) ==
    IF S = {} THEN 0
    ELSE LET i == CHOOSE i \in S : TRUE IN f[i] + SumOver(f, S \ {i})

\* The holes of a range that carry strokes, and the sum of their strokes.
WithStrokes(raw, lo, hi) ==
    { i \in lo..hi : i <= Len(raw.holes) /\ raw.holes[i].strokes.value # None }

StrokeSum(raw, lo, hi) ==
    SumOver([i \in 1..Len(raw.holes) |-> raw.holes[i].strokes.value],
            WithStrokes(raw, lo, hi))

HalvesDiffer(raw) ==
    /\ raw.totals.total_score.value # None
    /\ raw.totals.front_nine_score.value # None
    /\ raw.totals.back_nine_score.value # None
    /\ raw.totals.front_nine_score.value + raw.totals.back_nine_score.value
          # raw.totals.total_score.value

TotalRanges ==
    { <<"total_score", 1, 18 + MaxHoles>>, <<"front_nine_score", 1, 9>>,
      <<"back_nine_score", 10, 18>> }

RoundFieldOf(c, name) == DictGet(c.round_fields, name, NoPure)

\* C16 as stated: a non-null total that differs from the sum of the strokes of
\* its holes gets validation confidence 0.2 (the sum of no strokes being 0);
\* a total equal to its sum, with no front + back mismatch, keeps 1.0.
C16_Original ==
    (pout.kind = "confidence" /\ pin.kind = "full") =>
        \A t \in TotalRanges :
            LET total == pin.raw.totals[t[1]].value
                v == RoundFieldOf(pout.confidence, t[1]).validation_confidence
            IN  total # None =>
                  /\ total # StrokeSum(pin.raw, t[2], t[3]) => v = 2000
                  /\ (total = StrokeSum(pin.raw, t[2], t[3]) /\ ~HalvesDiffer(pin.raw)) =>
                        v = Scale

\* The extracted holes of a range.
HolesIn(raw, lo, hi) == { i \in lo..hi : i <= Len(raw.holes) }

\* C16 amended: a non-null total whose range has at least one hole with
\* strokes gets 0.2 when it differs from the sum of the strokes present; a
\* total that equals that sum, or whose range has no strokes at all, keeps
\* 1.0, front + back mismatch aside.
C16_Amended ==
    (pout.kind = "confidence" /\ pin.kind = "full") =>
        \A t \in TotalRanges :
            LET total == pin.raw.totals[t[1]].value
                v == RoundFieldOf(pout.confidence, t[1]).validation_confidence
                compared == WithStrokes(pin.raw, t[2], t[3]) # {}
            IN  total # None =>
                  /\ (compared /\ total # StrokeSum(pin.raw, t[2], t[3])) => v = 2000
                  /\ ((~compared \/ total = StrokeSum(pin.raw, t[2], t[3]))
                      /\ ~HalvesDiffer(pin.raw)) => v = Scale

\* A card of eleven holes whose first hole has no strokes: total 44 and front
\* nine 36 differ from the strokes present (40 and 32) and get 0.2, back nine
\* 8 equals its sum and keeps 1.0.
C16_Witness ==
    /\ pout.kind = "confidence" /\ pin.kind = "full"
    /\ Len(pin.raw.holes) > 10
    /\ pin.raw.holes[1].strokes.value = None
    /\ pin.raw.totals.total_score.value = 44
    /\ StrokeSum(pin.raw, 1, 18) = 40
    /\ RoundFieldOf(pout.confidence, "total_score").validation_confidence = 2000
    /\ pin.raw.totals.front_nine_score.value = 36
    /\ StrokeSum(pin.raw, 1, 9) = 32
    /\ RoundFieldOf(pout.confidence, "front_nine_score").validation_confidence = 2000
    /\ pin.raw.totals.back_nine_score.value = 8
    /\ RoundFieldOf(pout.confidence, "back_nine_score").validation_confidence = Scale

\* The validation confidence a total's own sum check gives it.
OwnSumCheck(raw, t) ==
    IF /\ raw.totals[t[1]].value # None
       /\ WithStrokes(raw, t[2], t[3]) # {}
       /\ raw.totals[t[1]].value # StrokeSum(raw, t[2], t[3])
    THEN 2000 ELSE Scale

HasHalvesFlag(fc) ==
    \E k \in 1..Len(fc.validation_flags) :
        fc.validation_flags[k][1] = "Front + Back != Total"

\* C17: when total, front nine and back nine are all read and front + back
\* differs from total, each of the three ends at the lower of 0.3 and its own
\* sum check and carries the front + back flag; otherwise each keeps its own
\* sum check and carries no such flag.
C17_HalvesRule ==
    (pout.kind = "confidence" /\ pin.kind = "full") =>
        \A t \in TotalRanges :
            LET fc == RoundFieldOf(pout.confidence, t[1])
                own == OwnSumCheck(pin.raw, t)
            IN  IF HalvesDiffer(pin.raw)
                THEN /\ fc.validation_confidence = (IF own < 3000 THEN own ELSE 3000)
                     /\ fc.validation_confidence <= 3000
                     /\ HasHalvesFlag(fc)
                ELSE /\ fc.validation_confidence = own
                     /\ ~HasHalvesFlag(fc)

C17_Witness ==
    /\ pout.kind = "confidence" /\ pin.kind = "full"
    /\ HalvesDiffer(pin.raw)
    /\ RoundFieldOf(pout.confidence, "total_score").validation_confidence = 2000
    /\ RoundFieldOf(pout.confidence, "front_nine_score").validation_confidence = 3000
    /\ RoundFieldOf(pout.confidence, "back_nine_score").validation_confidence = 2000
    /\ HasHalvesFlag(RoundFieldOf(pout.confidence, "total_score"))

\* ---- rules and null values
HasFlag(fc, text) ==
    \E k \in 1..Len(fc.validation_flags) : fc.validation_flags[k][1] = text

SumFlags ==
    { <<"total_score", "Total score != sum of hole strokes">>,
      <<"front_nine_score", "Front nine != sum of holes 1-9">>,
      <<"back_nine_score", "Back nine != sum of holes 10-18">> }

FlagOf(name) == (CHOOSE f \in SumFlags : f[1] = name)[2]

\* Hole and total fields read as null keep validation confidence 1.0 and no
\* flags.
NullFieldsUntouched ==
    /\ \A h \in HoleConfidencesBuilt :
          \A j \in 1..Len(h.fields) :
              LET raw_hole == IF pin.kind \in {"full_hole", "score_hole"}
                              THEN pin.hole ELSE pin.raw.holes[h.hole_number]
              IN  raw_hole[h.fields[j].k].value = None =>
                      /\ h.fields[j].v.validation_confidence = Scale
                      /\ h.fields[j].v.validation_flags = << >>
    /\ (pout.kind = "confidence" /\ pin.kind = "full") =>
          /\ \A t \in TotalRanges \cup {<<"total_putts", 1, 1>>} :
                pin.raw.totals[t[1]].value = None =>
                    /\ RoundFieldOf(pout.confidence, t[1]).validation_confidence = Scale
                    /\ RoundFieldOf(pout.confidence, t[1]).validation_flags = << >>
          /\ pin.raw.course.par.value = None =>
                /\ DictGet(pout.confidence.course.fields, "par", NoPure).validation_confidence = Scale
                /\ DictGet(pout.confidence.course.fields, "par", NoPure).validation_flags = << >>

\* A sum rule stays silent when a hole of its range has null strokes.
SumRulesNeedAllStrokes ==
    (pout.kind = "confidence" /\ pin.kind = "full") =>
        \A t \in TotalRanges :
            WithStrokes(pin.raw, t[2], t[3]) # HolesIn(pin.raw, t[2], t[3]) =>
                ~HasFlag(RoundFieldOf(pout.confidence, t[1]), FlagOf(t[1]))

\* C18: a field read as null keeps validation confidence 1.0 without flags,
\* and a sum rule never fires when a hole it sums over has null strokes.
C18_Claim == NullFieldsUntouched /\ SumRulesNeedAllStrokes

\* ------------------------------------------------------------------ C19
LastCall == log[Len(log)]
ScoresOnlyResult ==
    /\ outcome.kind = "result"
    /\ log # << >>
    /\ LastCall.op = "model"
    /\ LastCall.schema = "ScoresOnly"

\* C19: every result produced on the scores-only path, whether requested
\* directly or reached through SMART, carries a course confidence with overall
\* 1.0 and level HIGH, whatever the model returned and whatever the known
\* course contains.
C19_CourseConfidenceFixed ==
    ScoresOnlyResult =>
        /\ outcome.confidence.course.overall = Scale
        /\ outcome.confidence.course.level = "HIGH"

\* A SMART run that reached the scores-only branch and whose model output
\* lowered the extraction's confidence, the course confidence staying at 1.0.
C19_Witness ==
    /\ ScoresOnlyResult
    /\ req.strategy = "smart"
    /\ LastCall.returned.to_par_scoring.confidence < Scale
    /\ outcome.confidence.overall < Scale
    /\ outcome.confidence.course.overall = Scale
    /\ outcome.confidence.course.level = "HIGH"

\* ------------------------------------------------------------------ C20
\* The raw extraction as the final extraction call returned it, field by field.
FinalRawIs(dumped) ==
    /\ LastCall.op = "model"
    /\ LastCall.schema \in {"Full", "ScoresOnly"}
    /\ LastCall.returned # NoRaw
    /\ dumped = LastCall.returned

\* C20: the result's raw_response is null in every run that did not request
\* it, under all three strategies; when requested it equals the raw extraction
\* returned by the final extraction call (Full or Scores-Only), unchanged.
C20_RawResponse ==
    outcome.kind = "result" =>
        IF req.include_raw_response
        THEN FinalRawIs(outcome.raw_response)
        ELSE outcome.raw_response = NoRaw

\* A SMART run that fell back to the Full call and was asked for the raw
\* response.
C20_Witness ==
    /\ outcome.kind = "result"
    /\ req.strategy = "smart"
    /\ req.include_raw_response
    /\ Len(log) >= 2
    /\ LastCall.schema = "Full"
    /\ outcome.raw_response = LastCall.returned
    /\ outcome.raw_response # NoRaw

\* ------------------------------------------------------------------ C21
FullResult ==
    /\ outcome.kind = "result"
    /\ log # << >>
    /\ LastCall.op = "model"
    /\ LastCall.schema = "Full"

\* The tee the statement expects: the dedicated field, else the first tee's color.
TeePlayedOrFirstTee(raw) ==
    IF raw.tee_played.value # NoStr THEN raw.tee_played.value
    ELSE IF Len(raw.tees) > 0 THEN raw.tees[1].color.value
    ELSE NoStr

\* The domain objects accept everything of the raw extraction but its tees.
AcceptedButForTees(raw) ==
    /\ build_round_ok([raw EXCEPT !.tees = << >>])
    /\ confidence_ok(raw.holes)

FullAnswered ==
    /\ pc = "done"
    /\ log # << >>
    /\ LastCall.op = "model"
    /\ LastCall.schema = "Full"
    /\ LastCall.answer = "ok"

\* C21: on the full path the round's tee played is the value of the dedicated
\* tee-played field when that is non-null and otherwise the color of the first
\* extracted tee; it is null only when both are absent.  Every Full extraction
\* whose holes and course par are acceptable therefore ends with a round
\* carrying that tee.
C21_Claim ==
    (FullAnswered /\ AcceptedButForTees(LastCall.returned)) =>
        /\ outcome.kind = "result"
        /\ outcome.round.tee_box = TeePlayedOrFirstTee(LastCall.returned)

\* ------------------------------------------------------------------ C22
StrokesRangeValue(s) ==
    IF s = None THEN Scale
    ELSE IF s \notin 1..15 THEN 0
    ELSE IF s \in 11..15 THEN 7000
    ELSE Scale

PuttsRangeValue(p) ==
    IF p = None THEN Scale
    ELSE IF p \notin 0..10 THEN 0
    ELSE IF p \in 5..10 THEN 8000
    ELSE Scale

\* The values of the rules that fire for a field, the range rule included.
StrokesTriggered(s, p) ==
    {StrokesRangeValue(s)} \cup (IF PuttsExceed(s, p) THEN {3000} ELSE {})

PuttsTriggered(s, p) ==
    {PuttsRangeValue(p)} \cup (IF PuttsExceed(s, p) THEN {0} ELSE {})

\* C22: for a full-extraction hole the strokes validation confidence is 0.0
\* outside [1,15], 0.7 in 11..15 and 1.0 otherwise, the putts validation
\* confidence is 0.0 outside [0,10], 0.8 in 5..10 and 1.0 otherwise, and when
\* the putts-greater-than-strokes rule fires as well the field's confidence is
\* the minimum of the triggered values.
C22_SingleFieldRules ==
    (pout.kind = "hole" /\ pin.kind = "full_hole") =>
        LET s == pin.hole.strokes.value
            p == pin.hole.putts.value
        IN  /\ IsMinOf(FieldOf(pout.hole, "strokes").validation_confidence,
                       StrokesTriggered(s, p))
            /\ IsMinOf(FieldOf(pout.hole, "putts").validation_confidence,
                       PuttsTriggered(s, p))

\* Strokes 0 with putts 5: both range rules and the cross-field rule fire.
C22_Witness ==
    /\ pout.kind = "hole" /\ pin.kind = "full_hole"
    /\ pin.hole.strokes.value = 0
    /\ pin.hole.putts.value = 5
    /\ FieldOf(pout.hole, "strokes").validation_confidence = 0
    /\ Len(FieldOf(pout.hole, "strokes").validation_flags) = 2
    /\ FieldOf(pout.hole, "putts").validation_confidence = 0
    /\ Len(FieldOf(pout.hole, "putts").validation_flags) = 2

\* ------------------------------------------------------------------ C23
\* 1 for an annotated field with a value, 0 for a null one.
Present(f) == AF(f.value, IF f.value = None THEN 0 ELSE 1)
PresentStr(f) == AF(f.value, IF f.value = NoStr THEN 0 ELSE 1)

\* The raw extraction with each course and tee confidence replaced by the
\* presence of its value, so that the course field map tells the keys whose
\* raw value is non-null.
PresenceMarked(raw) ==
    [raw EXCEPT
        !.course = [name |-> PresentStr(raw.course.name),
                    location |-> PresentStr(raw.course.location),
                    par |-> Present(raw.course.par)],
        !.tees = [i \in 1..Len(raw.tees) |->
                    [color |-> PresentStr(raw.tees[i].color),
                     slope_rating |-> Present(raw.tees[i].slope_rating),
                     course_rating |-> Present(raw.tees[i].course_rating),
                     hole_yardages |->
                         [j \in 1..Len(raw.tees[i].hole_yardages) |->
                             [hole_number |-> raw.tees[i].hole_yardages[j].hole_number,
                              yardage |-> Present(raw.tees[i].hole_yardages[j].yardage)]]]]]

NonNullCourseFinals(c, raw) ==
    LET present == course_llm_map(PresenceMarked(raw))
    IN  { c.fields[j].v.final_confidence :
            j \in { j \in 1..Len(c.fields) : DictGet(present, c.fields[j].k, 0) = 1 } }

\* C23: on the full path the course overall equals the minimum final
\* confidence over exactly the course and tee fields whose raw value is
\* non-null, so a null course field reported with confidence 0 does not lower
\* it.
C23_Claim ==
    (pout.kind = "confidence" /\ pin.kind = "full") =>
        LET c == pout.confidence.course
            finals == NonNullCourseFinals(c, pin.raw)
        IN  IF finals = {} THEN c.overall = 0 ELSE IsMinOf(c.overall, finals)

\* ------------------------------------------------------------------ C27
\* name, location and par, then color, slope_rating and course_rating of
\* every tee and one entry per yardage item.
CourseEntriesExpected(raw) ==
    3 + SeqSum([i \in 1..Len(raw.tees) |-> 3 + Len(raw.tees[i].hole_yardages)])

\* C27: on the full path every extracted tee keeps its own entries in the
\* course confidence: the course field map holds name, location and par plus
\* a color, slope_rating and course_rating entry per tee and one entry per
\* yardage item, and total_fields_extracted counts all of them, also when two
\* tees share a color label, a tee without color collides with a tee_<index>
\* label, or a tee lists a hole number twice.
C27_Claim ==
    (pout.kind = "confidence" /\ pin.kind = "full") =>
        LET c == pout.confidence
        IN  /\ Len(c.course.fields) = CourseEntriesExpected(pin.raw)
            /\ c.total_fields_extracted =
                  SeqSum([i \in 1..Len(c.hole_scores) |-> Len(c.hole_scores[i].fields)])
                  + CourseEntriesExpected(pin.raw)
                  + Len(c.round_fields)

\* ------------------------------------------------------------------ C25
PuttsOverConverted == "Putts > converted strokes"

\* C25: on the scores-only path validation and conversion agree on each hole's
\* strokes: the converted strokes the putts cross-check compares against are
\* the strokes stored for the hole in the returned round, so a hole is flagged
\* 'putts > converted strokes' exactly when its stored putts exceed its stored
\* strokes, also when the raw hole number is null or differs from the hole's
\* position.
C25_Claim ==
    (pout.kind = "scores_result" /\ pout.ok) =>
        \A i \in 1..Len(pin.raw.holes) :
            LET stored == pout.round.hole_scores[i]
                h == pout.confidence.hole_scores[i]
                compared == pin.raw.holes[i].score.value # None
                            /\ pin.raw.holes[i].putts.value # None
            IN  /\ compared => ValidatedStrokes(pin.raw, pin.course, i) = stored.strokes
                /\ HasFlag(FieldOf(h, "putts"), PuttsOverConverted)
                       <=> PuttsExceed(stored.strokes, stored.putts)

\* ------------------------------------------------------------------ C26
\* The score rule of _validate_score_only_hole leaves a to-par score above 0.
NotZeroed(raw_score) ==
    DictGet(_validate_score_only_hole(
                [hole_number |-> NullAF, score |-> AF(raw_score, Scale), putts |-> NullAF],
                0, TRUE, NoHole),
            "score", VR(Scale, << >>)).conf # 0

\* C26: on the scores-only path with to-par scoring every raw score that
\* validation does not zero converts, for every known par from 3 to 6, to a
\* stroke count the HoleScore object accepts, so building the round from a
\* validation-accepted score never fails.
C26_Claim ==
    (pout.kind = "strokes" /\ pin.to_par_scoring
        /\ pin.raw_score # None /\ pin.par \in 3..6
        /\ NotZeroed(pin.raw_score)) =>
        HoleScore_ok([hole_number |-> None, strokes |-> pout.strokes, putts |-> None])

\* ------------------------------------------------------------------ C28
Unsupported == ~DictHas(MIME_TYPES, Lower(req.suffix))
NoKnownCourse == req.strategy = "scores_only" /\ req.course = NoCourse
UnknownStrategy == req.strategy \notin {"full", "scores_only", "smart"}

\* The failure conditions of the request, in the order they are reported.
FailureOrder ==
    << [holds |-> ~req.file_exists, error |-> "FileNotFoundError"],
       [holds |-> Unsupported, error |-> "ValueError: Unsupported file type"],
       [holds |-> ~req.api_key, error |-> "EnvironmentError"],
       [holds |-> NoKnownCourse, error |-> "ValueError: SCORES_ONLY requires course"],
       [holds |-> UnknownStrategy, error |-> "ValueError: Unknown strategy"] >>

\* C28: when several failure conditions hold at once the run reports the
\* first of them in the order missing file, unsupported file type, missing
\* credentials, then missing known course or unknown strategy, and it reports
\* exactly that one error.
C28_ErrorOrder ==
    pc # "idle" =>
        \A k \in 1..Len(FailureOrder) :
            (FailureOrder[k].holds /\ \A j \in 1..(k - 1) : ~FailureOrder[j].holds) =>
                /\ pc = "done"
                /\ outcome.kind = "error"
                /\ outcome.error = FailureOrder[k].error
                /\ outcome.round = NoRound

\* A request with no file, an unsupported suffix, no credentials and no known
\* course: only the missing file is reported.
C28_Witness ==
    /\ pc = "done"
    /\ ~req.file_exists /\ Unsupported /\ ~req.api_key /\ NoKnownCourse
    /\ outcome.kind = "error"
    /\ outcome.error = "FileNotFoundError"

\* ------------------------------------------------------------------ C24
CourseById(id) == IF id = "none" THEN NoCourse ELSE CHOOSE c \in Courses : c.id = id

\* The response a logged model call received.
ResponseOf(e, raw) == IF e.answer = "parse_failure" THEN ParseFailure ELSE [ok |-> TRUE, raw |-> raw]

\* One request run alone from the local state st, every call answered as
\* entry k, k + 1, ... of answers records; it stops at a call not yet answered.
RECURSIVE Replay(_, _, _, _)
Replay(st, answers, identified, k) ==
    IF st.pc = "done" \/ k > Len(answers) \/ answers[k].answer = "pending" THEN st
    ELSE IF st.pc = "call_course_id"
         THEN Replay(local_extract_smart(st, ResponseOf(answers[k], identified)),
                     answers, identified, k + 1)
    ELSE IF st.pc = "lookup"
         THEN Replay(local_find_course_by_name(st, CourseById(answers[k].answer)),
                     answers, identified, k + 1)
    ELSE IF st.pc = "call_full"
         THEN Replay(local_extract_full(st, ResponseOf(answers[k], answers[k].returned)),
                     answers, identified, k + 1)
    ELSE Replay(local_extract_scores_only(st, ResponseOf(answers[k], answers[k].returned)),
                answers, identified, k + 1)

\* The request run alone with the same arguments and the same model and
\* repository answers.
Alone(args, identified, answers) ==
    Replay(local_extract_scorecard(args), answers, identified, 1)

\* A single run of the dispatcher is the run Alone describes.
AloneIsTheSingleRun ==
    pc # "idle" => LocalState(pc, req, known, idraw, log, outcome) = Alone(req, idraw, log)

\* What request r holds and returns, read through the references it keeps:
\* the known course and the course of a scores-only Round are the Course
\* object itself, as it is when the state is observed.
Observed(r) ==
    [Locals(r) EXCEPT
        !.known = Object(known[r]),
        !.outcome = IF outcome[r].kind = "result" /\ known[r] # NoCourse
                    THEN [outcome[r] EXCEPT !.round.course = Object(known[r])]
                    ELSE outcome[r]]

\* No update_field call has been accepted so far (the values assigned in
\* these runs never restore an initial one): the repository's answer is then
\* the course as the repository holds it.
NothingAssigned ==
    pin.assigned = [id \in {"A", "B"} |-> IF id = "A" THEN CourseA ELSE CourseB]

SameAsAlone(r) ==
    (pc[r] # "idle" /\ NothingAssigned) => Observed(r) = Alone(req[r], idraw[r], log[r])

\* The Course object a reference leads to when only the host's assignments
\* count.
AssignedObject(c) == IF c = NoCourse THEN NoCourse ELSE pin.assigned[c.id]

\* The step the request r takes when run alone from its present state, on
\* the arguments or the answer this step records in its log, reading the
\* Course objects as the host's assignments alone have made them.
AloneStep(r) ==
    LET st == Locals(r)
        e == log'[r][Len(log[r])]
    IN  IF pc[r] = "idle"
        THEN local_extract_scorecard(
                 [req'[r] EXCEPT !.api_key = pin.GOOGLE_API_KEY,
                                 !.course = AssignedObject(req'[r].course)])
        ELSE IF pc[r] = "call_course_id"
        THEN local_extract_smart(st, ResponseOf(e, idraw'[r]))
        ELSE IF pc[r] = "lookup"
        THEN local_find_course_by_name(st, AssignedObject(CourseById(e.answer)))
        ELSE IF pc[r] = "call_full"
        THEN local_extract_full(st, ResponseOf(e, e.returned))
        ELSE local_extract_scores_only(
                 [st EXCEPT !.known = AssignedObject(st.known)], ResponseOf(e, e.returned))

\* Every step of a request is the step of that request run alone, whatever
\* the other request and the host did before it.
StepsAsAlone == \A r \in Requests : Locals(r)' # Locals(r) => Locals(r)' = AloneStep(r)

\* Every step belongs to the host or to one request; a step of a request
\* leaves the state of the other request and the shared objects as they were.
OneRequestPerStep ==
    \/ \A r \in Requests : Locals(r)' = Locals(r)
    \/ /\ pin' = pin
       /\ \E r \in Requests : \A s \in Requests \ {r} : Locals(s)' = Locals(s)

\* The Course objects are as update_field calls made them: no step of a
\* request has written one.
SharedObjectsOnlyRead == pin.courses = pin.assigned

\* C24: when two extraction requests run concurrently under any interleaving
\* of their steps and of the host's assignments to the Course objects they
\* share, every step of a request is the step of that request run alone on
\* the same inputs and answers, and what a request holds and returns, read
\* through the Course object it shares, is what the host's assignments
\* alone would give; without such assignments the whole result equals that
\* of the request run alone.  No step of one request changes state of the
\* other, and no step of a request writes an object the requests share.
C24_RequestsAreIndependent ==
    /\ [](\A r \in Requests : SameAsAlone(r))
    /\ []SharedObjectsOnlyRead
    /\ [][OneRequestPerStep /\ StepsAsAlone]_vars

\* Two SMART requests whose lookups were answered with the same Course object
\* and whose model calls were answered differently: both finished on the
\* scores-only branch, each with its own Round, both Rounds carrying that
\* object.
C24_Witness ==
    /\ pc[1] = "done" /\ pc[2] = "done"
    /\ req[1].strategy = "smart" /\ req[2].strategy = "smart"
    /\ outcome[1].kind = "result" /\ outcome[2].kind = "result"
    /\ known[1] = CourseA /\ known[2] = CourseA
    /\ Len(log[1]) = 3 /\ Len(log[2]) = 3
    /\ Observed(1).outcome.round.course = pin.courses["A"]
    /\ Observed(2).outcome.round.course = pin.courses["A"]
    /\ outcome[1].round.hole_scores # outcome[2].round.hole_scores
    /\ NothingAssigned
    /\ Observed(1).outcome = Alone(req[1], idraw[1], log[1]).outcome
    /\ Observed(2).outcome = Alone(req[2], idraw[2], log[2]).outcome

\* ------------------------------------------------------------------ C29
Finished == pout # NoPure /\ pout.stage = "finished"

\* C29: every run of the /extract endpoint that wrote the upload to a
\* temporary file has removed that file by the time the request finishes,
\* whether extraction returned a result or ended with a file, credentials,
\* precondition, parse or validation error, and a request rejected for its
\* file extension never creates a temporary file.
C29_TempFileRemoved ==
    Finished =>
        /\ pout.uploaded => ~pout.tmp_exists
        /\ Lower(pin.filename_suffix) \notin allowed =>
              ~pout.tmp_created /\ ~pout.tmp_exists

\* A request whose extraction ended with a parse failure of the model
\* response: answered with status 500, the temporary file gone.
C29_Witness ==
    /\ Finished
    /\ pout.uploaded /\ pout.tmp_created /\ ~pout.tmp_exists
    /\ outcome.kind = "error"
    /\ outcome.error = "ValidationError: response"
    /\ pout.status = 500

\* ------------------------------------------------------------------ C30
\* The upload was stored and still on disk when the worker started,
\* credentials are set, and no model response failed to parse or was refused
\* by the domain objects.
CleanRun ==
    /\ Finished
    /\ pout.uploaded
    /\ req.file_exists /\ req.api_key
    /\ outcome.kind = "error" =>
          outcome.error \notin {"ValidationError: response", "ValidationError: domain model"}

\* C30: each of the strategy strings 'full', 'scores_only' and 'smart' that
\* the /extract endpoint accepts has runs ending with a ScanResponse: a
\* request with a valid file, credentials present and model responses that
\* conform and convert is answered with a ScanResponse under every one of
\* them, and any other strategy string is treated as 'full', not rejected.
C30_Claim ==
    CleanRun =>
        /\ pout.status = 200
        /\ pout.body.kind = "ScanResponse"
        /\ pin.strategy \notin {"full", "scores_only", "smart"} => req.strategy = "full"

\* What the endpoint does with 'scores_only': no run ends with a ScanResponse.
C30_ScoresOnlyNeverAnswered ==
    (Finished /\ pin.strategy = "scores_only") => pout.body.kind = "HTTPException"
====
